---- MODULE Spec2Model ----
(***************************************************************************)
(* A model of the tqtemplate engine (mevdschee/tqtemplate).                *)
(*                                                                         *)
(* Text is a sequence of one-character strings, so that the scanners of    *)
(* the engine (the template tokenizer, the expression tokenizer, the       *)
(* quote-aware splitter) run character by character as the Go code does.   *)
(* Go indexes from 0; the operators below keep the 0-based cursors of the  *)
(* code and read the character at cursor i with At(s, i).                  *)
(***************************************************************************)
EXTENDS Integers, Sequences, FiniteSets, TLC

VARIABLES
    pieces,     \* the fragments typed so far into the template under test
    template,   \* the template text handed to tokenize (their concatenation)
    tokens,     \* the result of Template.tokenize on template
    lexemes,    \* the lexemes of the expression under test
    source,     \* the expression text (the lexemes joined by spaces)
    evaluated,  \* the result of evaluating source
    call,       \* the last direct call of applyOperator, with its result
    request,    \* the Render call under test: template, context, filters, loader
    response,   \* what that call returned, with the trees and mappings it left
    registry,   \* the caller's map of functions as that call left it
    parallel    \* two Render calls running at once: their positions and maps

tokVars == <<pieces, template, tokens>>
exprVars == <<lexemes, source, evaluated, call>>
renderVars == <<request, response, registry, parallel>>
vars ==
    <<pieces, template, tokens, lexemes, source, evaluated, call, request, response,
      registry, parallel>>

(***************************************************************************)
(* Bounds of the model.                                                    *)
(***************************************************************************)
MaxPieces == 5

(***************************************************************************)
(* Text helpers (the Go standard library calls the code makes).            *)
(***************************************************************************)
At(s, i) == s[i + 1]

\* s[from:to] of Go (0-based, to exclusive)
Slice(s, from, to) == SubSeq(s, from + 1, to)

\* unicode.IsSpace on the characters the model uses
IsSpace(c) == c \in {" ", "\t", "\n", "\r", "\f"}

RECURSIVE TrimLeft(_)
TrimLeft(s) ==
    IF s # <<>> /\ IsSpace(Head(s)) THEN TrimLeft(Tail(s)) ELSE s

RECURSIVE TrimRight(_)
TrimRight(s) ==
    IF s # <<>> /\ IsSpace(s[Len(s)]) THEN TrimRight(SubSeq(s, 1, Len(s) - 1)) ELSE s

\* strings.TrimSpace
TrimSpace(s) == TrimRight(TrimLeft(s))

\* strings.LastIndex(s, c) for a one-character c: 0-based, -1 when absent
LastIndex(s, c) ==
    LET hits == {k \in 1..Len(s) : s[k] = c}
    IN  IF hits = {} THEN -1
        ELSE (CHOOSE k \in hits : \A j \in hits : j <= k) - 1

\* strings.Contains(s, c) for a one-character c
Contains(s, c) == \E k \in 1..Len(s) : s[k] = c

\* strings.HasPrefix
HasPrefix(s, p) == Len(s) >= Len(p) /\ SubSeq(s, 1, Len(p)) = p

RECURSIVE Concat(_)
Concat(ss) == IF ss = <<>> THEN <<>> ELSE Head(ss) \o Concat(Tail(ss))

(***************************************************************************)
(* Template.tokenize: src/tqtemplate.go:393-536.                        *)
(* The result alternates literal text and tag bodies; the body of a        *)
(* control tag carries the prefix "@".                                     *)
(***************************************************************************)

\* lines 403-413 and 447-457: is the tag at cursor i on a standalone line,
\* judged from the literal accumulated since the last emitted token
isStandaloneLine(literal, i) ==
    LET lineStart == LastIndex(literal, "\n")
    IN  IF lineStart = -1
        THEN literal = <<>> \/ (i = Len(literal) /\ TrimSpace(literal) = <<>>)
        ELSE TrimSpace(Slice(literal, lineStart + 1, Len(literal))) = <<>>

\* lines 416-420 and 460-464: drop the whitespace of the tag's own line
stripLineWhitespace(literal, standalone) ==
    LET lineStart == LastIndex(literal, "\n")
    IN  IF standalone /\ lineStart # -1 THEN Slice(literal, 0, lineStart + 1)
        ELSE IF standalone THEN <<>>
        ELSE literal

\* lines 434-438 and 484-488: one line break after a standalone tag is consumed
consumeNewline(tmpl, i, standalone) ==
    IF standalone /\ i < Len(tmpl) /\ At(tmpl, i) = "\n" THEN i + 1
    ELSE IF standalone /\ i < Len(tmpl) - 1 /\ At(tmpl, i) = "\r" /\ At(tmpl, i + 1) = "\n"
         THEN i + 2
    ELSE i

\* lines 425-431: the cursor after the comment's "#}", or where the scan gave up
RECURSIVE commentEnd(_, _)
commentEnd(tmpl, e) ==
    IF e < Len(tmpl) - 1
    THEN IF At(tmpl, e) = "#" /\ At(tmpl, e + 1) = "}" THEN e + 2
         ELSE commentEnd(tmpl, e + 1)
    ELSE e

\* a scan of a tag body in which a backslash is an ordinary character
RECURSIVE scanTagUnescaped(_, _, _, _, _, _)
scanTagUnescaped(tmpl, i, close, expr, quoted, escaped) ==
    IF i < Len(tmpl) - 1
    THEN LET ch == At(tmpl, i)
         IN  IF ch # "\"" /\ ~quoted /\ ch = close /\ At(tmpl, i + 1) = "}"
             THEN [i |-> i + 2, expr |-> expr, closed |-> TRUE]
             ELSE scanTagUnescaped(tmpl, i + 1, close, Append(expr, ch),
                                   IF ch = "\"" THEN ~quoted ELSE quoted, FALSE)
    ELSE [i |-> i, expr |-> expr, closed |-> FALSE]

\* lines 472-496 and 508-525: scan a tag body up to an unquoted, unescaped
\* closing delimiter close }.  Returns the cursor after the scan, the body and
\* whether the delimiter was found.
RECURSIVE scanTag(_, _, _, _, _, _)
scanTag(tmpl, i, close, expr, quoted, escaped) ==
    IF i < Len(tmpl) - 1
    THEN LET ch == At(tmpl, i)
         IN  IF ~escaped /\ ch # "\"" /\ ch # "\\" /\ ~quoted
                /\ ch = close /\ At(tmpl, i + 1) = "}"
             THEN [i |-> i + 2, expr |-> expr, closed |-> TRUE]
             ELSE scanTag(tmpl, i + 1, close, Append(expr, ch),
                          IF ~escaped /\ ch = "\"" THEN ~quoted ELSE quoted,
                          IF escaped THEN FALSE ELSE (ch = "\\"))
    ELSE [i |-> i, expr |-> expr, closed |-> FALSE]

\* src/tqtemplate.go:598-601: the marker of a control tag is dropped
withoutMarker(token) == IF HasPrefix(token, <<"@">>) THEN Tail(token) ELSE token

RECURSIVE tokenizeFrom(_, _, _, _)
tokenizeFrom(tmpl, i, literal, toks) ==
    LET length == Len(tmpl)
        opens(c) == i < length - 1 /\ At(tmpl, i) = "{" /\ At(tmpl, i + 1) = c
    IN  IF i >= length THEN Append(toks, literal)
        ELSE IF opens("#")
        THEN LET standalone == isStandaloneLine(literal, i)
                 e == commentEnd(tmpl, i + 2)
             IN  tokenizeFrom(tmpl, consumeNewline(tmpl, e, standalone),
                              stripLineWhitespace(literal, standalone), toks)
        ELSE IF opens("%")
        THEN LET standalone == isStandaloneLine(literal, i)
                 lit == stripLineWhitespace(literal, standalone)
                 r == scanTag(tmpl, i + 2, "%", <<>>, FALSE, FALSE)
             IN  IF r.closed
                 THEN tokenizeFrom(tmpl, consumeNewline(tmpl, r.i, standalone), <<>>,
                                   toks \o <<lit, <<"@">> \o TrimSpace(r.expr)>>)
                 ELSE tokenizeFrom(tmpl, r.i, <<>>, Append(toks, lit))
        ELSE IF opens("{")
        THEN LET r == scanTag(tmpl, i + 2, "}", <<>>, FALSE, FALSE)
             IN  IF r.closed
                 THEN tokenizeFrom(tmpl, r.i, <<>>, toks \o <<literal, TrimSpace(r.expr)>>)
                 ELSE tokenizeFrom(tmpl, r.i, <<>>, Append(toks, literal))
        ELSE tokenizeFrom(tmpl, i + 1, Append(literal, At(tmpl, i)), toks)

\* a tokenizer that drops the whitespace around the template
tokenizeTrimmed(tmpl) == tokenizeFrom(TrimSpace(tmpl), 0, <<>>, <<>>)

tokenize(tmpl) == tokenizeFrom(tmpl, 0, <<>>, <<>>)

(***************************************************************************)
(* Values (Go's any).  An int is [k |-> "int"], a float64 is an exact       *)
(* fraction num/den with den > 0 in lowest terms, a string is its text.     *)
(***************************************************************************)
IntV(i) == [k |-> "int", i |-> i]
\* an integer of another Go type than int: an int64
Int64V(i) == [k |-> "int64", i |-> i]
StrV(s) == [k |-> "str", s |-> s]
BoolV(b) == [k |-> "bool", b |-> b]
NilV == [k |-> "nil"]
ListV(items) == [k |-> "list", items |-> items]
MapV(m) == [k |-> "map", m |-> m]
\* RawValue: src/tqtemplate.go:12-15
RawV(s) == [k |-> "raw", s |-> s]

Abs(n) == IF n < 0 THEN -n ELSE n
Sign(n) == IF n < 0 THEN -1 ELSE 1

RECURSIVE GCD(_, _)
GCD(a, b) == IF b = 0 THEN a ELSE GCD(b, a % b)

\* a fraction in lowest terms with a positive denominator
Frac(n, d) ==
    LET g == GCD(Abs(n), Abs(d))
    IN  [num |-> Sign(d) * (n \div g), den |-> Abs(d) \div g]

FloatV(n, d) == [k |-> "float", f |-> Frac(n, d)]

\* Go's int(f): truncation toward zero
Trunc(f) == Sign(f.num) * (Abs(f.num) \div f.den)

\* Go's a % b on ints, b # 0: the sign follows the dividend
GoMod(a, b) == Sign(a) * (Abs(a) % Abs(b))

Digits == <<"0", "1", "2", "3", "4", "5", "6", "7", "8", "9">>
IsDigit(c) == \E d \in 1..10 : Digits[d] = c
DigitVal(c) == (CHOOSE d \in 1..10 : Digits[d] = c) - 1

Letters ==
    {"a", "b", "c", "d", "e", "f", "g", "h", "i", "j", "k", "l", "m",
     "n", "o", "p", "q", "r", "s", "t", "u", "v", "w", "x", "y", "z",
     "A", "B", "C", "D", "E", "F", "G", "H", "I", "J", "K", "L", "M",
     "N", "O", "P", "Q", "R", "S", "T", "U", "V", "W", "X", "Y", "Z"}
IsLetter(c) == c \in Letters

\* the grave accent (code 96) of the engine's messages; a TLA+ string cannot
\* hold that character, so it is spelled out
Backtick == "GRAVE"

\* the printable ASCII characters in code order, from the space (32) on
Ascii ==
    <<" ", "!", "\"", "#", "$", "%", "&", "'", "(", ")", "*", "+", ",", "-", ".", "/",
      "0", "1", "2", "3", "4", "5", "6", "7", "8", "9", ":", ";", "<", "=", ">", "?",
      "@", "A", "B", "C", "D", "E", "F", "G", "H", "I", "J", "K", "L", "M", "N", "O",
      "P", "Q", "R", "S", "T", "U", "V", "W", "X", "Y", "Z", "[", "\\", "]", "^", "_",
      Backtick, "a", "b", "c", "d", "e", "f", "g", "h", "i", "j", "k", "l", "m", "n", "o",
      "p", "q", "r", "s", "t", "u", "v", "w", "x", "y", "z", "{", "|", "}", "~">>

\* the byte value of a character (control characters sort before the space)
Ord(c) ==
    IF c = "\t" THEN 9 ELSE IF c = "\n" THEN 10 ELSE IF c = "\f" THEN 12
    ELSE IF c = "\r" THEN 13
    ELSE 31 + (CHOOSE k \in 1..Len(Ascii) : Ascii[k] = c)

\* Go's < on strings: bytewise lexicographic order
RECURSIVE StrLess(_, _)
StrLess(a, b) ==
    IF b = <<>> THEN FALSE
    ELSE IF a = <<>> THEN TRUE
    ELSE IF Head(a) = Head(b) THEN StrLess(Tail(a), Tail(b))
    ELSE Ord(Head(a)) < Ord(Head(b))

\* strconv.Itoa
RECURSIVE NatToStr(_)
NatToStr(n) ==
    IF n < 10 THEN <<Digits[n + 1]>> ELSE Append(NatToStr(n \div 10), Digits[(n % 10) + 1])

Itoa(i) == IF i < 0 THEN <<"-">> \o NatToStr(-i) ELSE NatToStr(i)

\* the decimal digits of rem/den after the point, at most k of them
RECURSIVE FracDigits(_, _, _)
FracDigits(rem, den, k) ==
    IF rem = 0 \/ k = 0 THEN <<>>
    ELSE <<Digits[((rem * 10) \div den) + 1]>> \o FracDigits((rem * 10) % den, den, k - 1)

\* strconv.FormatFloat(v, 'f', -1, 64): exact for the fractions whose decimal
\* expansion ends, which is all that the values of this model produce
FormatFloat(f) ==
    LET whole == Abs(f.num) \div f.den
        rest == FracDigits(Abs(f.num) % f.den, f.den, 16)
    IN  (IF f.num < 0 THEN <<"-">> ELSE <<>>) \o NatToStr(whole)
        \o (IF rest = <<>> THEN <<>> ELSE <<".">> \o rest)

\* the value of a run of digits, and of the digits after a point
RECURSIVE DigitsVal(_)
DigitsVal(s) ==
    IF s = <<>> THEN 0 ELSE DigitsVal(SubSeq(s, 1, Len(s) - 1)) * 10 + DigitVal(s[Len(s)])

RECURSIVE Pow10(_)
Pow10(k) == IF k = 0 THEN 1 ELSE 10 * Pow10(k - 1)

AllDigits(s) == \A k \in 1..Len(s) : IsDigit(s[k])

\* the place of the first "." of s, or one past its end
RECURSIVE DotIndex(_, _)
DotIndex(s, k) == IF k > Len(s) \/ s[k] = "." THEN k ELSE DotIndex(s, k + 1)

\* the number with the digits whole before the point and frac after it
ParseParts(whole, frac, negative) ==
    IF AllDigits(whole \o frac) /\ whole \o frac # <<>>
    THEN [ok |-> TRUE,
          f |-> Frac((IF negative THEN -1 ELSE 1) * DigitsVal(whole \o frac), Pow10(Len(frac)))]
    ELSE [ok |-> FALSE, f |-> Frac(0, 1)]

ParseUnsigned(body, p, negative) ==
    ParseParts(SubSeq(body, 1, p - 1), SubSeq(body, p + 1, Len(body)), negative)

\* strconv.ParseFloat(s, 64) on decimal notation: [sign] digits [. digits]
\* with a digit on at least one side of the point.  Exponent, hexadecimal,
\* "inf" and "nan" spellings do not occur in the texts of this model.
ParseFloat(s) ==
    IF s # <<>> /\ Head(s) \in {"+", "-"}
    THEN ParseUnsigned(Tail(s), DotIndex(Tail(s), 1), Head(s) = "-")
    ELSE ParseUnsigned(s, DotIndex(s, 1), FALSE)

(***************************************************************************)
(* Helper functions: src/helpers.go.                                       *)
(***************************************************************************)
\* toBool: src/helpers.go:9-24
toBool(v) ==
    CASE v.k = "bool" -> v.b
      [] v.k = "int" -> v.i # 0
      [] v.k = "float" -> v.f.num # 0
      [] v.k = "str" -> v.s # <<>>
      [] v.k = "nil" -> FALSE
      [] OTHER -> TRUE

\* toNumber: src/helpers.go:27-41
toNumber(v) ==
    CASE v.k = "int" -> [ok |-> TRUE, f |-> Frac(v.i, 1)]
      [] v.k = "float" -> [ok |-> TRUE, f |-> v.f]
      [] v.k = "str" -> ParseFloat(v.s)
      [] OTHER -> [ok |-> FALSE, f |-> Frac(0, 1)]

\* fmt.Sprintf("%v", v) for the values toString sends there: a RawValue
\* prints its field between braces, the undefined marker as a pointer to an
\* empty struct, an int64 in decimal.  Lists and mappings are never printed
\* in this model.
Sprintv(v) ==
    CASE v.k = "raw" -> <<"{">> \o v.s \o <<"}">>
      [] v.k = "int64" -> Itoa(v.i)
      [] v.k = "undefined" -> <<"&", "{", "}">>

\* toString: src/helpers.go:44-64
toString(v) ==
    CASE v.k = "str" -> v.s
      [] v.k = "int" -> Itoa(v.i)
      [] v.k = "float" -> FormatFloat(v.f)
      [] v.k = "bool" -> IF v.b THEN <<"1">> ELSE <<>>
      [] v.k = "nil" -> <<>>
      [] OTHER -> Sprintv(v)

FracLess(a, b) == a.num * b.den < b.num * a.den

compareNumbers(l, r) == IF FracLess(l, r) THEN -1 ELSE IF FracLess(r, l) THEN 1 ELSE 0
compareStrings(ls, rs) == IF StrLess(ls, rs) THEN -1 ELSE IF StrLess(rs, ls) THEN 1 ELSE 0

compareAs(l, r, left, right) ==
    IF l.ok /\ r.ok THEN compareNumbers(l.f, r.f)
    ELSE compareStrings(toString(left), toString(right))

\* compare: src/helpers.go:67-89
compare(left, right) == compareAs(toNumber(left), toNumber(right), left, right)

(***************************************************************************)
(* Results of the operations that return (value, error).  status is "ok",   *)
(* "err" (a returned error with its message) or "panic" (a Go run-time      *)
(* panic, which unwinds every caller and ends the program).                 *)
(***************************************************************************)
Ok(v) == [status |-> "ok", v |-> v, msg |-> <<>>]
Err(msg) == [status |-> "err", v |-> NilV, msg |-> msg]
Panic(msg) == [status |-> "panic", v |-> NilV, msg |-> msg]

\* explodeRespectingQuotes: src/tqtemplate.go:539-587 (every separator the
\* engine passes is a single character)
RECURSIVE explodeFrom(_, _, _, _, _, _, _, _)
explodeFrom(separator, str, count, i, toks, token, quoted, escaped) ==
    IF i >= Len(str) THEN Append(toks, token)
    ELSE LET ch == At(str, i)
         IN  IF ~quoted /\ ch # "\"" /\ ch = separator
             THEN IF separator = "|" /\ i + 1 < Len(str) /\ At(str, i + 1) = "|"
                  THEN explodeFrom(separator, str, count, i + 2, toks,
                                   token \o <<"|", "|">>, quoted, escaped)
                  ELSE IF count > 0 /\ Len(toks) + 1 = count - 1
                  THEN Append(Append(toks, token), Slice(str, i + 1, Len(str)))
                  ELSE explodeFrom(separator, str, count, i + 1, Append(toks, token),
                                   <<>>, quoted, escaped)
             ELSE explodeFrom(separator, str, count, i + 1, toks, Append(token, ch),
                      IF ~quoted THEN ch = "\""
                      ELSE IF ~escaped /\ ch = "\"" THEN FALSE ELSE TRUE,
                      IF quoted /\ ~escaped THEN ch = "\\" ELSE FALSE)

explodeRespectingQuotes(separator, str, count) ==
    explodeFrom(separator, str, IF count = -1 THEN 0 ELSE count, 0, <<>>, <<>>, FALSE, FALSE)

\* the messages of resolvePath and applyfilters
PathNotFound(part) ==
    <<"p", "a", "t", "h", " ", Backtick>> \o part
    \o <<Backtick, " ", "n", "o", "t", " ", "f", "o", "u", "n", "d">>

FilterNotFound(name) ==
    <<"f", "i", "l", "t", "e", "r", " ", Backtick>> \o name
    \o <<Backtick, " ", "n", "o", "t", " ", "f", "o", "u", "n", "d">>

\* resolvePath: src/unnamed/part_003:337-354.  data is the mapping itself, a
\* function from key texts to values.
RECURSIVE resolveParts(_, _)
resolveParts(parts, current) ==
    IF parts = <<>> THEN Ok(current)
    ELSE IF current.k = "map" /\ Head(parts) \in DOMAIN current.m
    THEN resolveParts(Tail(parts), current.m[Head(parts)])
    ELSE Err(PathNotFound(Head(parts)))

resolvePath(path, data) == resolveParts(explodeRespectingQuotes(".", path, -1), MapV(data))

(***************************************************************************)
(* The expression engine: src/unnamed/part_001.                            *)
(***************************************************************************)
Op(precedence, associativity) == [precedence |-> precedence, associativity |-> associativity]

\* operators: src/unnamed/part_001:25-42
operators ==
    <<  [name |-> <<"o", "r">>, op |-> Op(1, "left")],
        [name |-> <<"|", "|">>, op |-> Op(1, "left")],
        [name |-> <<"a", "n", "d">>, op |-> Op(2, "left")],
        [name |-> <<"&", "&">>, op |-> Op(2, "left")],
        [name |-> <<"=", "=">>, op |-> Op(3, "left")],
        [name |-> <<"!", "=">>, op |-> Op(3, "left")],
        [name |-> <<"<">>, op |-> Op(4, "left")],
        [name |-> <<">">>, op |-> Op(4, "left")],
        [name |-> <<"<", "=">>, op |-> Op(4, "left")],
        [name |-> <<">", "=">>, op |-> Op(4, "left")],
        [name |-> <<"+">>, op |-> Op(5, "left")],
        [name |-> <<"-">>, op |-> Op(5, "left")],
        [name |-> <<"*">>, op |-> Op(6, "left")],
        [name |-> <<"/">>, op |-> Op(6, "left")],
        [name |-> <<"%">>, op |-> Op(6, "left")],
        [name |-> <<"n", "o", "t">>, op |-> Op(7, "right")] >>

OperatorNames == {operators[k].name : k \in 1..Len(operators)}
IsOperator(name) == name \in OperatorNames
OperatorOf(name) == operators[CHOOSE k \in 1..Len(operators) : operators[k].name = name].op

ExpressionToken(type, value) == [Type |-> type, Value |-> value]

\* the index after the longest run of characters satisfying a test, from i
RECURSIVE lettersEnd(_, _)
lettersEnd(expr, i) ==
    IF i < Len(expr) /\ IsLetter(At(expr, i)) THEN lettersEnd(expr, i + 1) ELSE i

RECURSIVE numberEnd(_, _)
numberEnd(expr, i) ==
    IF i < Len(expr) /\ (IsDigit(At(expr, i)) \/ At(expr, i) = ".")
    THEN numberEnd(expr, i + 1) ELSE i

RECURSIVE identEnd(_, _)
identEnd(expr, i) ==
    IF i < Len(expr) /\ (IsLetter(At(expr, i)) \/ IsDigit(At(expr, i))
                         \/ At(expr, i) \in {"_", "."})
    THEN identEnd(expr, i + 1) ELSE i

\* the string-literal loop of tokenize: src/unnamed/part_001:118-135
RECURSIVE stringEnd(_, _, _, _)
stringEnd(expr, i, str, escaped) ==
    IF i >= Len(expr) THEN [i |-> i, str |-> str]
    ELSE IF escaped THEN stringEnd(expr, i + 1, Append(str, At(expr, i)), FALSE)
    ELSE IF At(expr, i) = "\\" THEN stringEnd(expr, i + 1, str, TRUE)
    ELSE IF At(expr, i) = "\"" THEN [i |-> i + 1, str |-> str]
    ELSE stringEnd(expr, i + 1, Append(str, At(expr, i)), FALSE)

\* Expression.tokenize: src/unnamed/part_001:53-158
RECURSIVE expressionTokenizeFrom(_, _, _)
expressionTokenizeFrom(expr, i, toks) ==
    IF i >= Len(expr) THEN toks
    ELSE LET ch == At(expr, i)
             word == Slice(expr, i, lettersEnd(expr, i))
             twoChar == IF i < Len(expr) - 1 THEN Slice(expr, i, i + 2) ELSE <<>>
         IN  IF IsSpace(ch) THEN expressionTokenizeFrom(expr, i + 1, toks)
             ELSE IF ch \in {"(", ")"}
             THEN expressionTokenizeFrom(expr, i + 1,
                      Append(toks, ExpressionToken("parenthesis", <<ch>>)))
             ELSE IF IsLetter(ch) /\ IsOperator(word)
             THEN expressionTokenizeFrom(expr, i + Len(word),
                      Append(toks, ExpressionToken("operator", word)))
             ELSE IF i < Len(expr) - 1 /\ IsOperator(twoChar)
             THEN expressionTokenizeFrom(expr, i + 2,
                      Append(toks, ExpressionToken("operator", twoChar)))
             ELSE IF IsOperator(<<ch>>)
             THEN expressionTokenizeFrom(expr, i + 1,
                      Append(toks, ExpressionToken("operator", <<ch>>)))
             ELSE IF IsDigit(ch) \/ (ch = "." /\ i < Len(expr) - 1 /\ IsDigit(At(expr, i + 1)))
             THEN LET e == numberEnd(expr, i)
                  IN  expressionTokenizeFrom(expr, e,
                          Append(toks, ExpressionToken("number", Slice(expr, i, e))))
             ELSE IF ch = "\""
             THEN LET r == stringEnd(expr, i + 1, <<>>, FALSE)
                  IN  expressionTokenizeFrom(expr, r.i,
                          Append(toks, ExpressionToken("string", r.str)))
             ELSE IF IsLetter(ch) \/ ch = "_"
             THEN LET e == identEnd(expr, i)
                  IN  expressionTokenizeFrom(expr, e,
                          Append(toks, ExpressionToken("identifier", Slice(expr, i, e))))
             ELSE expressionTokenizeFrom(expr, i + 1, toks)

\* NewExpression: src/unnamed/part_001:46-50
NewExpression(expr) == expressionTokenizeFrom(TrimSpace(expr), 0, <<>>)

IsOperand(token) == token.Type \in {"number", "string", "identifier"}
IsOpenParen(token) == token.Type = "parenthesis" /\ token.Value = <<"(">>
Top(stack) == stack[Len(stack)]
Pop(stack) == SubSeq(stack, 1, Len(stack) - 1)

\* a variant of popsBefore that compares strictly for every operator
popsBeforeStrict(o1, o2) == OperatorOf(o1).precedence < OperatorOf(o2).precedence

\* o1 yields to the operator o2 on top of the stack:
\* src/unnamed/part_001:200-201
popsBefore(o1, o2) ==
    LET o1Prec == OperatorOf(o1).precedence
        o2Prec == OperatorOf(o2).precedence
        o1Assoc == OperatorOf(o1).associativity
    IN  \/ (o1Assoc = "left" /\ o1Prec <= o2Prec)
        \/ (o1Assoc = "right" /\ o1Prec < o2Prec)

\* the loop on ")": pop operators until the matching "("
RECURSIVE popToParen(_, _)
popToParen(output, operatorStack) ==
    IF operatorStack # <<>> /\ ~IsOpenParen(Top(operatorStack))
    THEN popToParen(Append(output, Top(operatorStack)), Pop(operatorStack))
    ELSE [output |-> output,
          operatorStack |-> IF operatorStack # <<>> THEN Pop(operatorStack) ELSE operatorStack]

\* the loop on an operator: pop the operators it yields to
RECURSIVE popOperators(_, _, _)
popOperators(o1, output, operatorStack) ==
    IF /\ operatorStack # <<>>
       /\ Top(operatorStack).Type = "operator"
       /\ popsBefore(o1, Top(operatorStack).Value)
    THEN popOperators(o1, Append(output, Top(operatorStack)), Pop(operatorStack))
    ELSE [output |-> output, operatorStack |-> operatorStack]

RECURSIVE Reverse(_)
Reverse(s) == IF s = <<>> THEN <<>> ELSE Append(Reverse(Tail(s)), Head(s))

\* toReversePolishNotation: src/unnamed/part_001:167-224
RECURSIVE shuntingYard(_, _, _)
shuntingYard(toks, output, operatorStack) ==
    IF toks = <<>> THEN output \o Reverse(operatorStack)
    ELSE LET token == Head(toks)
         IN  IF IsOperand(token)
             THEN shuntingYard(Tail(toks), Append(output, token), operatorStack)
             ELSE IF IsOpenParen(token)
             THEN shuntingYard(Tail(toks), output, Append(operatorStack, token))
             ELSE IF token.Type = "parenthesis"
             THEN LET r == popToParen(output, operatorStack)
                  IN  shuntingYard(Tail(toks), r.output, r.operatorStack)
             ELSE LET r == popOperators(token.Value, output, operatorStack)
                  IN  shuntingYard(Tail(toks), r.output, Append(r.operatorStack, token))

toReversePolishNotation(toks) == shuntingYard(toks, <<>>, <<>>)

\* the messages of the evaluator
DivisionByZero ==
    <<"d", "i", "v", "i", "s", "i", "o", "n", " ", "b", "y", " ", "z", "e", "r", "o">>
ModuloByZero ==
    <<"m", "o", "d", "u", "l", "o", " ", "b", "y", " ", "z", "e", "r", "o">>
MalformedExpression ==
    <<"m", "a", "l", "f", "o", "r", "m", "e", "d", " ",
      "e", "x", "p", "r", "e", "s", "s", "i", "o", "n">>
NotEnoughOperands(op) ==
    <<"n", "o", "t", " ", "e", "n", "o", "u", "g", "h", " ", "o", "p", "e", "r", "a", "n", "d", "s",
      " ", "f", "o", "r", " ", "'">> \o op \o <<"'">>
UnknownOperator(op) ==
    <<"u", "n", "k", "n", "o", "w", "n", " ", "o", "p", "e", "r", "a", "t", "o", "r", ":", " ">> \o op
IntegerDivideByZero ==
    <<"i", "n", "t", "e", "g", "e", "r", " ", "d", "i", "v", "i", "d", "e", " ",
      "b", "y", " ", "z", "e", "r", "o">>

FracAdd(a, b) == Frac(a.num * b.den + b.num * a.den, a.den * b.den)
FracSub(a, b) == Frac(a.num * b.den - b.num * a.den, a.den * b.den)
FracMul(a, b) == Frac(a.num * b.num, a.den * b.den)
FracDiv(a, b) == Frac(a.num * b.den, a.den * b.num)
FloatOf(f) == [k |-> "float", f |-> f]

ComparisonOperators ==
    {<<"=", "=">>, <<"!", "=">>, <<"<">>, <<">">>, <<"<", "=">>, <<">", "=">>}

\* the comparison arms of applyOperator, c being compare(left, right)
comparison(op, c) ==
    CASE op = <<"=", "=">> -> c = 0
      [] op = <<"!", "=">> -> c # 0
      [] op = <<"<">> -> c < 0
      [] op = <<">">> -> c > 0
      [] op = <<"<", "=">> -> c <= 0
      [] op = <<">", "=">> -> c >= 0

\* the arithmetic arms of applyOperator, l and r being toNumber of the
\* operands.  The integer remainder of Go panics when its right operand is 0.
arithmetic(op, left, right, l, r) ==
    CASE op = <<"+">> ->
            IF l.ok /\ r.ok THEN Ok(FloatOf(FracAdd(l.f, r.f)))
            ELSE Ok(StrV(toString(left) \o toString(right)))
      [] op = <<"-">> -> Ok(FloatOf(FracSub(l.f, r.f)))
      [] op = <<"*">> -> Ok(FloatOf(FracMul(l.f, r.f)))
      [] op = <<"/">> ->
            IF ~r.ok \/ r.f.num = 0 THEN Err(DivisionByZero)
            ELSE Ok(FloatOf(FracDiv(l.f, r.f)))
      [] op = <<"%">> ->
            IF ~r.ok \/ r.f.num = 0 THEN Err(ModuloByZero)
            ELSE IF Trunc(r.f) = 0 THEN Panic(IntegerDivideByZero)
            ELSE Ok(IntV(GoMod(Trunc(l.f), Trunc(r.f))))
      [] OTHER -> Err(UnknownOperator(op))

\* applyOperator: src/unnamed/part_001:286-337
applyOperator(op, left, right) ==
    CASE op \in {<<"o", "r">>, <<"|", "|">>} -> Ok(BoolV(toBool(left) \/ toBool(right)))
      [] op \in {<<"a", "n", "d">>, <<"&", "&">>} -> Ok(BoolV(toBool(left) /\ toBool(right)))
      [] op \in ComparisonOperators -> Ok(BoolV(comparison(op, compare(left, right))))
      [] OTHER -> arithmetic(op, left, right, toNumber(left), toNumber(right))

\* the value a number token pushes: src/unnamed/part_001:233-240 (the error
\* of ParseFloat is dropped, which leaves 0)
numberValue(text) ==
    IF Contains(text, ".") THEN FloatOf(ParseFloat(text).f) ELSE IntV(DigitsVal(text))

\* evaluateRPN: src/unnamed/part_001:227-283.  pushed is the step every
\* token ends with: an error is returned, a value is pushed on the stack.
RECURSIVE evaluateFrom(_, _, _)
RECURSIVE pushed(_, _, _, _)
pushed(r, rpn, stack, data) ==
    IF r.status # "ok" THEN r ELSE evaluateFrom(rpn, Append(stack, r.v), data)

evaluateFrom(rpn, stack, data) ==
    IF rpn = <<>>
    THEN IF Len(stack) # 1 THEN Err(MalformedExpression) ELSE Ok(stack[1])
    ELSE IF Head(rpn).Type = "number"
    THEN pushed(Ok(numberValue(Head(rpn).Value)), Tail(rpn), stack, data)
    ELSE IF Head(rpn).Type = "string"
    THEN pushed(Ok(StrV(Head(rpn).Value)), Tail(rpn), stack, data)
    ELSE IF Head(rpn).Type = "identifier"
    THEN pushed(resolvePath(Head(rpn).Value, data), Tail(rpn), stack, data)
    ELSE IF Head(rpn).Type # "operator"
    THEN evaluateFrom(Tail(rpn), stack, data)
    ELSE IF Head(rpn).Value = <<"n", "o", "t">>
    THEN IF stack = <<>> THEN Err(NotEnoughOperands(Head(rpn).Value))
         ELSE pushed(Ok(BoolV(~toBool(Top(stack)))), Tail(rpn), Pop(stack), data)
    ELSE IF Len(stack) < 2 THEN Err(NotEnoughOperands(Head(rpn).Value))
    ELSE pushed(applyOperator(Head(rpn).Value, stack[Len(stack) - 1], Top(stack)),
                Tail(rpn), Pop(Pop(stack)), data)

evaluateRPN(rpn, data) == evaluateFrom(rpn, <<>>, data)

\* Expression.Evaluate: src/unnamed/part_001:161-164
Evaluate(e, data) == evaluateRPN(toReversePolishNotation(e), data)

(***************************************************************************)
(* The tokenizer under test: a template is typed fragment by fragment and  *)
(* tokenized after every fragment.                                         *)
(***************************************************************************)
ControlTag == <<"{", "%", " ", "t", " ", "%", "}">>
CommentTag == <<"{", "#", "c", "#", "}">>
VariableTag == <<"{", "{", "v", "}", "}">>
LiteralChars == {"a", " ", "\n", "\r"}

NoCall == [op |-> <<>>, left |-> NilV, right |-> NilV, result |-> Ok(NilV)]

ExprIdle ==
    /\ lexemes = <<>>
    /\ source = <<>>
    /\ evaluated = Ok(NilV)
    /\ call = NoCall

TokIdle ==
    /\ pieces = <<>>
    /\ template = <<>>
    /\ tokens = <<>>

NoRequest == [family |-> "none"]
NoResponse == [status |-> "none"]
NoParallel == [phase |-> "none"]

RenderIdle ==
    /\ request = NoRequest
    /\ response = NoResponse
    /\ registry = <<>>
    /\ parallel = NoParallel

Type(piece) ==
    /\ Len(pieces) < MaxPieces
    /\ pieces' = Append(pieces, piece)
    /\ template' = template \o piece
    /\ tokens' = tokenize(template')
    /\ UNCHANGED <<exprVars, renderVars>>

TypeLiteral == \E c \in LiteralChars : Type(<<c>>)
TypeControlTag == Type(ControlTag)
TypeCommentTag == Type(CommentTag)
TypeVariableTag == Type(VariableTag)

InitTok ==
    /\ pieces = <<>>
    /\ template = <<>>
    /\ tokens = tokenize(<<>>)
    /\ ExprIdle
    /\ RenderIdle

NextTok == TypeLiteral \/ TypeControlTag \/ TypeCommentTag \/ TypeVariableTag

SpecTok == InitTok /\ [][NextTok]_vars

\* the literal text of a token list: the tokens at the even (0-based) places
RECURSIVE LiteralText(_)
LiteralText(toks) ==
    IF toks = <<>> THEN <<>>
    ELSE IF Len(toks) = 1 THEN toks[1]
    ELSE toks[1] \o LiteralText(Tail(Tail(toks)))

\* the typed fragments cut into lines, each line ending with its "\n"
RECURSIVE SplitLines(_, _)
SplitLines(ps, line) ==
    IF ps = <<>> THEN (IF line = <<>> THEN <<>> ELSE <<line>>)
    ELSE IF Head(ps) = <<"\n">> THEN <<Append(line, Head(ps))>> \o SplitLines(Tail(ps), <<>>)
    ELSE SplitLines(Tail(ps), Append(line, Head(ps)))

IsTagPiece(p) == p \in {ControlTag, CommentTag}
IsBlankPiece(p) == p \in {<<" ">>, <<"\r">>}
LineBody(line) == SubSeq(line, 1, Len(line) - 1)

\* the line holds one control or comment tag and otherwise only whitespace
TagAlone(line) ==
    LET body == LineBody(line)
    IN  /\ Cardinality({k \in 1..Len(body) : IsTagPiece(body[k])}) = 1
        /\ \A k \in 1..Len(body) : IsTagPiece(body[k]) \/ IsBlankPiece(body[k])

TagFree(line) == \A k \in 1..Len(line) : ~IsTagPiece(line[k])

\* the line starts with its only control or comment tag and content follows
TagThenContent(line) ==
    LET body == LineBody(line)
    IN  /\ body # <<>> /\ IsTagPiece(body[1])
        /\ \A k \in 2..Len(body) : ~IsTagPiece(body[k])
        /\ \E k \in 2..Len(body) : ~IsBlankPiece(body[k])

\* the literal characters of a line: everything outside its tags
RECURSIVE LineLiteral(_)
LineLiteral(line) ==
    IF line = <<>> THEN <<>>
    ELSE (IF Len(Head(line)) = 1 THEN Head(line) ELSE <<>>) \o LineLiteral(Tail(line))

RECURSIVE LinesLiteral(_)
LinesLiteral(lines) ==
    IF lines = <<>> THEN <<>>
    ELSE (IF TagAlone(Head(lines)) THEN <<>> ELSE LineLiteral(Head(lines)))
         \o LinesLiteral(Tail(lines))

WholeLines == pieces = <<>> \/ pieces[Len(pieces)] = <<"\n">>

\* C10: in a template made of whole lines, each of them free of control and
\* comment tags, or holding one such tag and otherwise only whitespace, or
\* starting with such a tag that content follows, the literal text that
\* reaches the output is the text of the lines that are not a tag alone:
\* a tag-alone line contributes nothing (neither its whitespace nor its line
\* break), a tag followed by content keeps the content and the line break.
StandaloneTagLineRemoved ==
    LET lines == SplitLines(pieces, <<>>)
    IN  (/\ WholeLines
         /\ \A k \in 1..Len(lines) :
                TagFree(lines[k]) \/ TagAlone(lines[k]) \/ TagThenContent(lines[k]))
        => LiteralText(tokens) = LinesLiteral(lines)

\* the fragment at place k is preceded on its line by literal text that is
\* not whitespace or by a tag
PrecededOnLine(k) ==
    \E j \in 1..(k - 1) :
        /\ ~IsBlankPiece(pieces[j]) /\ pieces[j] # <<"\n">>
        /\ \A between \in (j + 1)..(k - 1) : pieces[between] # <<"\n">>

NoTagLeadsItsLine ==
    \A k \in 1..Len(pieces) : IsTagPiece(pieces[k]) => PrecededOnLine(k)

\* C24: a control or comment tag that literal text or another tag precedes
\* on its line is not treated as standalone: in a template where that is so
\* of every such tag, no whitespace before a tag and no line break after it
\* is removed, and the literal text of the tokens is all the text outside
\* the tags.
OnlyLeadingTagsStandalone ==
    NoTagLeadsItsLine => LiteralText(tokens) = LineLiteral(pieces)

\* what holds of tokenize: the same where literal text that is not
\* whitespace stands between every such tag and the tag before it
TextPrecedesOnLine(k) ==
    \E j \in 1..(k - 1) :
        /\ pieces[j] = <<"a">>
        /\ \A between \in (j + 1)..(k - 1) : Len(pieces[between]) = 1 /\ pieces[between] # <<"\n">>

TagsAfterTextNotStandalone ==
    (\A k \in 1..Len(pieces) : IsTagPiece(pieces[k]) => TextPrecedesOnLine(k))
        => LiteralText(tokens) = LineLiteral(pieces)

(***************************************************************************)
(* The scanner under test: a template that starts with an opening          *)
(* delimiter, or with none, is continued fragment by fragment with         *)
(* delimiters, quotes, backslashes and letters, closed or not, and         *)
(* tokenized after every fragment.                                         *)
(***************************************************************************)
MaxFragments == 5

Openers == {<<"{", "{">>, <<"{", "%">>, <<"{", "#">>}
Closers == {<<"}", "}">>, <<"%", "}">>}
ScanChars == {"\"", "\\", "a"}

TypeFragment(piece) ==
    /\ Len(pieces) < MaxFragments
    /\ pieces' = Append(pieces, piece)
    /\ template' = template \o piece
    /\ tokens' = tokenize(template')
    /\ UNCHANGED <<exprVars, renderVars>>

TypeOpener == \E piece \in Openers : TypeFragment(piece)
TypeCloser == \E piece \in Closers : TypeFragment(piece)
TypeChar == \E c \in ScanChars : TypeFragment(<<c>>)

InitScan ==
    /\ \E first \in Openers \cup {<<"a">>} :
        /\ pieces = <<first>>
        /\ template = first
        /\ tokens = tokenize(first)
    /\ ExprIdle
    /\ RenderIdle

NextScan == TypeOpener \/ TypeCloser \/ TypeChar

SpecScan == InitScan /\ [][NextScan]_vars

\* the template opens with a variable or a control tag
OpensWithTag == pieces # <<>> /\ pieces[1] \in {<<"{", "{">>, <<"{", "%">>}

\* the first character of the closing delimiter of the tag the template opens with
CloseChar == IF pieces[1] = <<"{", "{">> THEN "}" ELSE "%"

\* the length of the run of backslashes that ends just before place p of s
RECURSIVE BackslashRun(_, _)
BackslashRun(s, p) ==
    IF p > 1 /\ s[p - 1] = "\\" THEN 1 + BackslashRun(s, p - 1) ELSE 0

\* the character at place p is escaped: an odd run of backslashes precedes it
EscapedAt(s, p) == BackslashRun(s, p) % 2 = 1

\* place p lies in a quoted string: an odd number of unescaped double quotes
\* precedes it in the tag
QuotedAt(s, p) == Cardinality({q \in 3..(p - 1) : s[q] = "\"" /\ ~EscapedAt(s, q)}) % 2 = 1

DelimiterAt(s, p) == p < Len(s) /\ s[p] = CloseChar /\ s[p + 1] = "}"

\* the places where a closing delimiter of the opened tag stands outside
\* quotes and unescaped, and those where it stands outside quotes and not
\* directly after a backslash
UnescapedEnds(s) ==
    {p \in 3..Len(s) : DelimiterAt(s, p) /\ ~QuotedAt(s, p) /\ ~EscapedAt(s, p)}
EndsNotAfterBackslash(s) ==
    {p \in 3..Len(s) : DelimiterAt(s, p) /\ ~QuotedAt(s, p) /\ s[p - 1] # "\\"}

First(ends) == CHOOSE p \in ends : \A q \in ends : p <= q

\* the body of the first tag as tokenize cut it, without the control marker
FirstBody == withoutMarker(tokens[2])

\* the first tag extends to the first of the places ends and the text after
\* it is tokenized on its own; the tag is not closed when there is no such
\* place
ExtendsToFirst(ends) ==
    IF ends = {}
    THEN Len(tokens) = 2
    ELSE /\ Len(tokens) >= 3
         /\ FirstBody = SubSeq(template, 3, First(ends) - 1)
         /\ SubSeq(tokens, 3, Len(tokens))
                = tokenize(SubSeq(template, First(ends) + 2, Len(template)))

\* C21 as stated: the tag the template opens with extends to the first
\* closing delimiter that is outside quotes and not directly after a
\* backslash.
TagEndsNotAfterBackslash ==
    OpensWithTag => ExtendsToFirst(EndsNotAfterBackslash(template))

\* C21: the tag the template opens with extends to the first closing
\* delimiter that is outside quotes and not escaped, a character being
\* escaped when an odd run of backslashes precedes it.
TagEndsAtFirstUnescapedDelimiter ==
    OpensWithTag => ExtendsToFirst(UnescapedEnds(template))

\* C21 happens: a closing delimiter in quotes and one after a backslash are
\* part of the body of a tag that a later delimiter closes
QuotedDelimiterSkipped ==
    \/ /\ template = <<"{", "{", "\"", "}", "}", "\"", "}", "}">>
       /\ tokens = <<<<>>, <<"\"", "}", "}", "\"">>, <<>>>>
    \/ /\ template = <<"{", "%", "\\", "%", "}", "%", "}">>
       /\ tokens = <<<<>>, <<"@", "\\", "%">>, <<>>>>

\* tok is the body of a tag of s: s holds it between an opening delimiter
\* and the closing delimiter of the same kind (with the marker for {% %})
IsTagBody(tok, s) ==
    \E p, q \in 1..Len(s) :
        /\ p + 1 < q /\ q < Len(s)
        /\ s[p] = "{" /\ s[q + 1] = "}"
        /\ \/ s[p + 1] = "{" /\ s[q] = "}" /\ tok = SubSeq(s, p + 2, q - 1)
           \/ s[p + 1] = "%" /\ s[q] = "%" /\ tok = <<"@">> \o SubSeq(s, p + 2, q - 1)

\* C23: tokenize returns, for every text, the unclosed {{, {% and {# among
\* them, a sequence of odd length whose tokens at the odd places (counted
\* from 0) are bodies of tags of the text, so that no literal text stands
\* where the tree builder reads a tag.
TokensAlternate ==
    /\ Len(tokens) % 2 = 1
    /\ \A k \in 1..Len(tokens) : k % 2 = 0 => IsTagBody(tokens[k], template)

\* what holds of tokenize: a result of odd length alternates in this way
OddLengthTokensAlternate ==
    Len(tokens) % 2 = 1 =>
        \A k \in 1..Len(tokens) : k % 2 = 0 => IsTagBody(tokens[k], template)

(***************************************************************************)
(* The expression engine under test: expressions of a few shapes are built *)
(* from lexemes, written out with single spaces and evaluated; and         *)
(* applyOperator is called directly on operand values of every kind.  One  *)
(* expression is evaluated, or one operator applied, per run.              *)
(***************************************************************************)
\* the context the expressions are evaluated in
ExprData == [key \in {<<"n">>, <<"s">>} |-> IF key = <<"n">> THEN IntV(0) ELSE StrV(<<"1", "0">>)]

Operands == {<<"1">>, <<"2">>, <<"3">>, <<"n">>, <<"s">>}
FewOperands == {<<"2">>, <<"3">>}
Not == <<"n", "o", "t">>
BinaryOperators == OperatorNames \ {Not}
FewOperators == {<<"o", "r">>, <<"=", "=">>, <<"<">>, <<"-">>, <<"*">>}

RECURSIVE JoinSpaces(_)
JoinSpaces(lex) ==
    IF lex = <<>> THEN <<>>
    ELSE IF Len(lex) = 1 THEN lex[1]
    ELSE lex[1] \o <<" ">> \o JoinSpaces(Tail(lex))

EvaluateLexemes(lex) ==
    /\ lexemes' = lex
    /\ source' = JoinSpaces(lex)
    /\ evaluated' = Evaluate(NewExpression(source'), ExprData)
    /\ UNCHANGED <<call, tokVars, renderVars>>

EvalBinary ==
    /\ ExprIdle
    /\ \E x, y \in Operands, op \in BinaryOperators : EvaluateLexemes(<<x, op, y>>)

EvalChain ==
    /\ ExprIdle
    /\ \E x, y, z \in FewOperands, op1, op2 \in BinaryOperators :
        EvaluateLexemes(<<x, op1, y, op2, z>>)

EvalGroupLeft ==
    /\ ExprIdle
    /\ \E x, y, z \in FewOperands, op1, op2 \in BinaryOperators :
        EvaluateLexemes(<<<<"(">>, x, op1, y, <<")">>, op2, z>>)

EvalGroupRight ==
    /\ ExprIdle
    /\ \E x, y, z \in FewOperands, op1, op2 \in BinaryOperators :
        EvaluateLexemes(<<x, op1, <<"(">>, y, op2, z, <<")">>>>)

EvalNot ==
    /\ ExprIdle
    /\ \E x, y \in Operands, op \in BinaryOperators :
        \/ EvaluateLexemes(<<Not, x, op, y>>)
        \/ EvaluateLexemes(<<x, op, Not, y>>)
        \/ EvaluateLexemes(<<Not, <<"(">>, x, op, y, <<")">>>>)
        \/ EvaluateLexemes(<<Not, Not, x, op, Not, y>>)

EvalLong ==
    /\ ExprIdle
    /\ \E w, x, y, z \in FewOperands, op1, op2, op3 \in FewOperators :
        EvaluateLexemes(<<w, op1, x, op2, y, op3, z>>)

OperandValues ==
    {IntV(i) : i \in -2..3}
    \cup {FloatV(1, 2), FloatV(-1, 2), FloatV(5, 2), FloatV(0, 1)}
    \cup {StrV(<<>>), StrV(<<"0">>), StrV(<<"2">>), StrV(<<"0", ".", "5">>), StrV(<<"x">>)}
    \cup {BoolV(TRUE), NilV}

ApplyDivMod ==
    /\ ExprIdle
    /\ \E op \in {<<"/">>, <<"%">>}, left, right \in OperandValues :
        /\ call' = [op |-> op, left |-> left, right |-> right,
                    result |-> applyOperator(op, left, right)]
        /\ UNCHANGED <<lexemes, source, evaluated, tokVars, renderVars>>

\* the numbers a caller's data can hold besides int and float64
TypedNumbers == {Int64V(i) : i \in {2, 9, 10}}

AddedValues == OperandValues \cup TypedNumbers \cup {StrV(<<"1", "0">>), StrV(<<"9">>)}

ApplyPlus ==
    /\ ExprIdle
    /\ \E left, right \in AddedValues :
        /\ call' = [op |-> <<"+">>, left |-> left, right |-> right,
                    result |-> applyOperator(<<"+">>, left, right)]
        /\ UNCHANGED <<lexemes, source, evaluated, tokVars, renderVars>>

ApplyComparison ==
    /\ ExprIdle
    /\ \E op \in ComparisonOperators, left, right \in AddedValues :
        /\ call' = [op |-> op, left |-> left, right |-> right,
                    result |-> applyOperator(op, left, right)]
        /\ UNCHANGED <<lexemes, source, evaluated, tokVars, renderVars>>

InitExpr ==
    /\ TokIdle
    /\ ExprIdle
    /\ RenderIdle

NextExpr ==
    \/ EvalBinary \/ EvalChain \/ EvalGroupLeft \/ EvalGroupRight
    \/ EvalNot \/ EvalLong \/ ApplyDivMod \/ ApplyPlus \/ ApplyComparison

SpecExpr == InitExpr /\ [][NextExpr]_vars

(***************************************************************************)
(* The grouping the precedence table prescribes, computed by descent over  *)
(* the lexemes: a primary is an operand, a parenthesized expression or     *)
(* "not" applied to a primary; a binary operator of level n takes as its   *)
(* right operand the longest expression of operators above level n.        *)
(***************************************************************************)
Level(op) ==
    CASE op \in {<<"o", "r">>, <<"|", "|">>} -> 1
      [] op \in {<<"a", "n", "d">>, <<"&", "&">>} -> 2
      [] op \in {<<"=", "=">>, <<"!", "=">>} -> 3
      [] op \in {<<"<">>, <<">">>, <<"<", "=">>, <<">", "=">>} -> 4
      [] op \in {<<"+">>, <<"-">>} -> 5
      [] op \in {<<"*">>, <<"/">>, <<"%">>} -> 6

IsBinary(lexeme) == lexeme \in BinaryOperators

OperandValue(lexeme) ==
    IF IsDigit(lexeme[1]) THEN Ok(numberValue(lexeme)) ELSE resolvePath(lexeme, ExprData)

\* an operator applied to two evaluated operands, the left one first
Apply(op, l, r) ==
    IF l.status # "ok" THEN l
    ELSE IF r.status # "ok" THEN r
    ELSE applyOperator(op, l.v, r.v)

Negate(x) == IF x.status # "ok" THEN x ELSE Ok(BoolV(~toBool(x.v)))

RECURSIVE Primary(_, _)
RECURSIVE Grouped(_, _, _)
RECURSIVE GroupedFrom(_, _, _, _)
Primary(lex, pos) ==
    IF lex[pos] = <<"(">>
    THEN LET inner == Grouped(lex, pos + 1, 1)
         IN  [val |-> inner.val, pos |-> inner.pos + 1]
    ELSE IF lex[pos] = Not
    THEN LET operand == Primary(lex, pos + 1)
         IN  [val |-> Negate(operand.val), pos |-> operand.pos]
    ELSE [val |-> OperandValue(lex[pos]), pos |-> pos + 1]

GroupedFrom(lex, pos, minLevel, left) ==
    IF pos <= Len(lex) /\ IsBinary(lex[pos]) /\ Level(lex[pos]) >= minLevel
    THEN LET right == Grouped(lex, pos + 1, Level(lex[pos]) + 1)
         IN  GroupedFrom(lex, right.pos, minLevel, Apply(lex[pos], left, right.val))
    ELSE [val |-> left, pos |-> pos]

Grouped(lex, pos, minLevel) ==
    LET first == Primary(lex, pos)
    IN  GroupedFrom(lex, first.pos, minLevel, first.val)

\* C6: the value of every expression built from operands, binary operators,
\* "not" and balanced parentheses is the value of the expression grouped by
\* the precedence table, binary operators to the left, "not" to the right,
\* a parenthesized sub-expression as a unit.
EvaluatesAsGrouped ==
    lexemes # <<>> => evaluated = Grouped(lexemes, 1, 1).val

\* C6 happens: 2 - 3 * 2 - 2 is (2 - (3 * 2)) - 2 = -6, and (2 + 2) * 3 is 12
MixedPrecedenceEvaluated ==
    \/ /\ lexemes = <<<<"2">>, <<"-">>, <<"3">>, <<"*">>, <<"2">>, <<"-">>, <<"2">>>>
       /\ evaluated = Ok(FloatV(-6, 1))
    \/ /\ lexemes = <<<<"(">>, <<"2">>, <<"+">>, <<"2">>, <<")">>, <<"*">>, <<"3">>>>
       /\ evaluated = Ok(FloatV(12, 1))

DivisorFails(right) == ~toNumber(right).ok \/ toNumber(right).f.num = 0

\* C7: left / right and left % right give the error "division by zero" or
\* "modulo by zero" exactly when the divisor is zero or not a number, and a
\* number, with no error and no crash, for every other divisor.
DivModErrorOnlyOnZeroDivisor ==
    call.op \in {<<"/">>, <<"%">>} =>
        IF DivisorFails(call.right)
        THEN call.result = Err(IF call.op = <<"/">> THEN DivisionByZero ELSE ModuloByZero)
        ELSE call.result.status = "ok" /\ call.result.v.k \in {"int", "float"}

\* the operands the claims about "+" and the comparisons call numeric: a
\* number of any Go type, or a string that parses as a number
IsNumber(v) == v.k \in {"int", "int64", "float"}
IsNumeric(v) == IsNumber(v) \/ (v.k = "str" /\ ParseFloat(v.s).ok)
NumberOf(v) ==
    CASE v.k \in {"int", "int64"} -> Frac(v.i, 1)
      [] v.k = "float" -> v.f
      [] v.k = "str" -> ParseFloat(v.s).f

\* the string representation of a value: the text of a string, the decimal
\* notation of a number, "1" or "" for a boolean, "" for nil
Representation(v) ==
    CASE v.k = "str" -> v.s
      [] v.k \in {"int", "int64"} -> Itoa(v.i)
      [] v.k = "float" -> FormatFloat(v.f)
      [] v.k = "bool" -> IF v.b THEN <<"1">> ELSE <<>>
      [] v.k = "nil" -> <<>>

IsSum(result, left, right) ==
    /\ result.status = "ok"
    /\ IsNumber(result.v)
    /\ NumberOf(result.v) = FracAdd(NumberOf(left), NumberOf(right))

Plus(c) == c.op = <<"+">>

\* C19: a + b is the numeric sum when both operands are numeric (numbers, or
\* strings that parse as numbers) and otherwise the concatenation of the
\* string representations of the operands; it is never an error.
PlusSumsOrConcatenates ==
    Plus(call) =>
        IF IsNumeric(call.left) /\ IsNumeric(call.right)
        THEN IsSum(call.result, call.left, call.right)
        ELSE call.result = Ok(StrV(Representation(call.left) \o Representation(call.right)))

\* what holds of "+": the same with numeric read as toNumber reads it, an
\* int, a float64 or a string that parses
PlusSumsWhatToNumberConverts ==
    Plus(call) =>
        IF toNumber(call.left).ok /\ toNumber(call.right).ok
        THEN IsSum(call.result, call.left, call.right)
        ELSE call.result = Ok(StrV(Representation(call.left) \o Representation(call.right)))

Compares(c) == c.op \in ComparisonOperators

\* the order of two operands: of their numbers when both are numeric, of
\* their string representations, character by character, otherwise
Order(left, right, numeric) ==
    IF numeric
    THEN compareNumbers(NumberOf(left), NumberOf(right))
    ELSE compareStrings(Representation(left), Representation(right))

\* C20: for every pair of operands ==, !=, <, >, <= and >= give no error;
\* they give the comparison of the numbers when both operands coerce to
\* numbers and the lexicographic comparison of the string representations
\* otherwise.
ComparisonNumericOrLexicographic ==
    Compares(call) =>
        call.result = Ok(BoolV(comparison(call.op,
            Order(call.left, call.right, IsNumeric(call.left) /\ IsNumeric(call.right)))))

\* what holds of the comparisons: the same with the operands that coerce to
\* numbers being those toNumber converts
ComparisonAsToNumberConverts ==
    Compares(call) =>
        call.result = Ok(BoolV(comparison(call.op,
            Order(call.left, call.right, toNumber(call.left).ok /\ toNumber(call.right).ok))))

(***************************************************************************)
(* The renderer: src/unnamed/part_003, src/blocks.go and the Template of   *)
(* src/tqtemplate.go.  More calls of the Go standard library first.        *)
(***************************************************************************)
RECURSIVE IndexFrom(_, _, _)
IndexFrom(s, substr, k) ==
    IF k + Len(substr) > Len(s) THEN -1
    ELSE IF Slice(s, k, k + Len(substr)) = substr THEN k
    ELSE IndexFrom(s, substr, k + 1)

\* strings.Index: 0-based, -1 when absent
Index(s, substr) == IndexFrom(s, substr, 0)

HasSuffix(s, suffix) ==
    Len(s) >= Len(suffix) /\ SubSeq(s, Len(s) - Len(suffix) + 1, Len(s)) = suffix

\* strings.TrimSuffix and strings.TrimPrefix
TrimSuffix(s, suffix) == IF HasSuffix(s, suffix) THEN SubSeq(s, 1, Len(s) - Len(suffix)) ELSE s
TrimPrefix(s, prefix) == IF HasPrefix(s, prefix) THEN SubSeq(s, Len(prefix) + 1, Len(s)) ELSE s

RECURSIVE TrimLeftCutset(_, _)
TrimLeftCutset(s, cutset) ==
    IF s # <<>> /\ Head(s) \in cutset THEN TrimLeftCutset(Tail(s), cutset) ELSE s

RECURSIVE TrimRightCutset(_, _)
TrimRightCutset(s, cutset) ==
    IF s # <<>> /\ s[Len(s)] \in cutset
    THEN TrimRightCutset(SubSeq(s, 1, Len(s) - 1), cutset) ELSE s

\* strings.Trim(s, cutset)
Trim(s, cutset) == TrimRightCutset(TrimLeftCutset(s, cutset), cutset)

\* strings.ReplaceAll for a non-empty old
RECURSIVE ReplaceAll(_, _, _)
ReplaceAll(s, old, new) ==
    IF s = <<>> THEN <<>>
    ELSE IF HasPrefix(s, old) THEN new \o ReplaceAll(SubSeq(s, Len(old) + 1, Len(s)), old, new)
    ELSE <<Head(s)>> \o ReplaceAll(Tail(s), old, new)

\* html.EscapeString
RECURSIVE EscapeString(_)
EscapeString(s) ==
    IF s = <<>> THEN <<>>
    ELSE (CASE Head(s) = "&" -> <<"&", "a", "m", "p", ";">>
            [] Head(s) = "'" -> <<"&", "#", "3", "9", ";">>
            [] Head(s) = "<" -> <<"&", "l", "t", ";">>
            [] Head(s) = ">" -> <<"&", "g", "t", ";">>
            [] Head(s) = "\"" -> <<"&", "#", "3", "4", ";">>
            [] OTHER -> <<Head(s)>>) \o EscapeString(Tail(s))

LowerCase == <<"a", "b", "c", "d", "e", "f", "g", "h", "i", "j", "k", "l", "m", "n", "o", "p",
        "q", "r", "s", "t", "u", "v", "w", "x", "y", "z">>
UpperCase == <<"A", "B", "C", "D", "E", "F", "G", "H", "I", "J", "K", "L", "M", "N", "O", "P",
        "Q", "R", "S", "T", "U", "V", "W", "X", "Y", "Z">>

\* strings.ToUpper on ASCII text
RECURSIVE ToUpper(_)
ToUpper(s) ==
    IF s = <<>> THEN <<>>
    ELSE (IF \E k \in 1..26 : LowerCase[k] = Head(s)
          THEN <<UpperCase[CHOOSE k \in 1..26 : LowerCase[k] = Head(s)]>>
          ELSE <<Head(s)>>) \o ToUpper(Tail(s))

(***************************************************************************)
(* processIsTests: src/unnamed/part_004:173-217.  "value is [not] test"    *)
(* is rewritten to the expression value and a call of the filter           *)
(* __istest__ or __isnot__.                                                *)
(***************************************************************************)
IsTestName == <<"_", "_", "i", "s", "t", "e", "s", "t", "_", "_">>
IsNotName == <<"_", "_", "i", "s", "n", "o", "t", "_", "_">>

\* lines 194-214: the synthesized filter call
testFilterOf(filterName, right) ==
    IF Contains(right, "(")
    THEN filterName \o <<"(", "\"">> \o Slice(right, 0, Index(right, <<"(">>)) \o <<"\"", ",",
            " ">>
         \o TrimSuffix(Slice(right, Index(right, <<"(">>) + 1, Len(right)), <<")">>)
         \o <<")">>
    ELSE filterName \o <<"(", "\"">> \o right \o <<"\"", ")">>

\* lines 186-191: the negation
isTestOf(left, right) ==
    IF HasPrefix(right, <<"n", "o", "t", " ">>)
    THEN [expr |-> left, test |-> testFilterOf(IsNotName, TrimSpace(Slice(right, 4,
            Len(right))))]
    ELSE [expr |-> left, test |-> testFilterOf(IsTestName, right)]

processIsTests(expr) ==
    IF Index(expr, <<" ", "i", "s", " ">>) = -1 THEN [expr |-> expr, test |-> <<>>]
    ELSE isTestOf(TrimSpace(Slice(expr, 0, Index(expr, <<" ", "i", "s", " ">>))),
                  TrimSpace(Slice(expr, Index(expr, <<" ", "i", "s", " ">>) + 4, Len(expr))))

\* undefinedValue: src/unnamed/part_004:9-11
undefinedValue == [k |-> "undefined"]

\* src/unnamed/part_003:97-100: the test is defined or undefined
IsDefinedTest(testFilter) ==
    \/ Index(testFilter, IsTestName \o <<"(", "\"", "d", "e", "f", "i", "n", "e", "d", "\"",
            ")">>) # -1
    \/ Index(testFilter, IsTestName \o <<"(", "\"", "u", "n", "d", "e", "f", "i", "n", "e",
            "d", "\"", ")">>) # -1
    \/ Index(testFilter, IsNotName \o <<"(", "\"", "d", "e", "f", "i", "n", "e", "d", "\"",
            ")">>) # -1
    \/ Index(testFilter, IsNotName \o <<"(", "\"", "u", "n", "d", "e", "f", "i", "n", "e", "d",
            "\"", ")">>) # -1

(***************************************************************************)
(* The syntax tree.  The nodes of every tree parsed during a call live in  *)
(* one heap, a sequence of TreeNode records; a *TreeNode is an index into  *)
(* it (0 is nil) and Children holds such indices, so that the assignment   *)
(* to node.Value is visible through every reference to the node.           *)
(***************************************************************************)
\* TreeNode: src/tqtemplate.go:347-352
TreeNode(type, expression) ==
    [Type |-> type, Expression |-> expression, Children |-> <<>>, Value |-> NilV]

\* current.Children = append(current.Children, node)
appendChild(nodes, current, node) ==
    Append([nodes EXCEPT ![current].Children = Append(@, Len(nodes) + 1)], node)

\* src/tqtemplate.go:606-624: the kind and expression of a tag body
controlNode(token) ==
    IF token = <<"e", "n", "d", "i", "f">> THEN TreeNode("endif", <<>>)
    ELSE IF token = <<"e", "n", "d", "f", "o", "r">> THEN TreeNode("endfor", <<>>)
    ELSE IF token = <<"e", "l", "s", "e">> THEN TreeNode("else", <<>>)
    ELSE IF HasPrefix(token, <<"e", "l", "s", "e", "i", "f", " ">>)
    THEN TreeNode("elseif", TrimSpace(Slice(token, 7, Len(token))))
    ELSE IF HasPrefix(token, <<"i", "f", " ">>) THEN TreeNode("if", TrimSpace(Slice(token, 3,
            Len(token))))
    ELSE IF HasPrefix(token, <<"f", "o", "r", " ">>) THEN TreeNode("for",
            TrimSpace(Slice(token, 4, Len(token))))
    ELSE TreeNode("var", token)

\* the tags of template inheritance (block, endblock, extends, include); the
\* tree builder that classifies them is not among the sources, the kinds are
\* those blocks.go and renderChildren dispatch on
inheritanceNode(token) ==
    IF token = <<"e", "n", "d", "b", "l", "o", "c", "k">> THEN TreeNode("endblock", <<>>)
    ELSE IF HasPrefix(token, <<"b", "l", "o", "c", "k", " ">>)
    THEN TreeNode("block", TrimSpace(Slice(token, 6, Len(token))))
    ELSE IF HasPrefix(token, <<"e", "x", "t", "e", "n", "d", "s", " ">>)
    THEN TreeNode("extends", TrimSpace(Slice(token, 8, Len(token))))
    ELSE IF HasPrefix(token, <<"i", "n", "c", "l", "u", "d", "e", " ">>)
    THEN TreeNode("include", TrimSpace(Slice(token, 8, Len(token))))
    ELSE controlNode(token)

InheritanceClosing == {"endblock"}
InheritanceOpening == {"block"}
InheritanceLeaves == {"extends", "include"}

\* src/tqtemplate.go:626, 633, 638: the kinds that close, stay leaves, open
ClosingTypes == {"endif", "endfor", "elseif", "else"} \cup InheritanceClosing
LeafTypes == {"var"} \cup InheritanceLeaves
OpeningTypes == {"if", "for", "elseif", "else"} \cup InheritanceOpening

\* createSyntaxTree: src/tqtemplate.go:590-650
RECURSIVE createSyntaxTreeFrom(_, _, _, _, _)
RECURSIVE attached(_, _, _, _, _, _)
attached(node, toks, i, nodes, current, stack) ==
    IF node.Type \in LeafTypes
    THEN createSyntaxTreeFrom(toks, i + 1, appendChild(nodes, current, node), current, stack)
    ELSE IF node.Type \in OpeningTypes
    THEN createSyntaxTreeFrom(toks, i + 1, appendChild(nodes, current, node),
                              Len(nodes) + 1, Append(stack, current))
    ELSE createSyntaxTreeFrom(toks, i + 1, nodes, current, stack)

\* lines 626-631: a closing kind returns to the node on top of the stack
placed(node, toks, i, nodes, current, stack) ==
    IF node.Type \in ClosingTypes /\ stack # <<>>
    THEN attached(node, toks, i, nodes, Top(stack), Pop(stack))
    ELSE attached(node, toks, i, nodes, current, stack)

createSyntaxTreeFrom(toks, i, nodes, current, stack) ==
    IF i >= Len(toks) THEN nodes
    ELSE IF i % 2 = 1
    THEN placed(inheritanceNode(withoutMarker(At(toks, i))), toks, i, nodes, current, stack)
    ELSE createSyntaxTreeFrom(toks, i + 1,
             appendChild(nodes, current, TreeNode("lit", At(toks, i))), current, stack)

\* the tree of toks, built in the heap nodes: the grown heap and the root
createSyntaxTree(toks, nodes) ==
    [nodes |-> createSyntaxTreeFrom(toks, 0, Append(nodes, TreeNode("root", <<>>)),
                                    Len(nodes) + 1, <<>>),
     root |-> Len(nodes) + 1]

(***************************************************************************)
(* Filters.  A function of the registry is its Go signature, on which      *)
(* callFunction switches, and the name of what it computes.                *)
(***************************************************************************)
Function(sig, name) == [sig |-> sig, name |-> name]

\* the filter Render registers, src/tqtemplate.go:373-375, and the function
\* strings.ToUpper a caller registers
RawFilter == Function("func(string) RawValue", "raw")
UpperFilter == Function("func(string) string", "upper")

Invoke(name, arg) ==
    CASE name = "raw" -> RawV(arg)
      [] name = "upper" -> StrV(ToUpper(arg))

\* testDefined, testUndefined, testNull, testNumber, testString, testEven:
\* src/unnamed/part_004:86-100, 122-128, 155-170
testDefined(value) == value.k # "undefined"
testUndefined(value) == value.k = "undefined"
testNull(value) == value.k = "nil"
testNumber(value) == toNumber(value).ok
testString(value) == value.k = "str"
testEven(value) == toNumber(value).ok /\ GoMod(Trunc(toNumber(value).f), 2) = 0

\* getBuiltinTests: src/unnamed/part_004:14-26, the tests the model runs
BuiltinTests == {<<"d", "e", "f", "i", "n", "e", "d">>, <<"u", "n", "d", "e", "f", "i", "n",
        "e", "d">>, <<"n", "u", "l", "l">>, <<"n", "u", "m", "b", "e", "r">>, <<"s", "t", "r",
        "i", "n", "g">>, <<"e", "v", "e", "n">>}

\* src/unnamed/part_004:47-50: the call of a test that takes the value only
testCalled(testName, value) ==
    CASE testName = <<"d", "e", "f", "i", "n", "e", "d">> -> testDefined(value)
      [] testName = <<"u", "n", "d", "e", "f", "i", "n", "e", "d">> -> testUndefined(value)
      [] testName = <<"n", "u", "l", "l">> -> testNull(value)
      [] testName = <<"n", "u", "m", "b", "e", "r">> -> testNumber(value)
      [] testName = <<"s", "t", "r", "i", "n", "g">> -> testString(value)
      [] testName = <<"e", "v", "e", "n">> -> testEven(value)

\* createFilterIsTest: src/unnamed/part_004:29-75, over the builtin tests
createFilterIsTest(value, args) ==
    IF Len(args) = 0 THEN FALSE
    ELSE IF toString(args[1]) \notin BuiltinTests THEN FALSE
    ELSE testCalled(toString(args[1]), value)

\* createFilterIsNot: src/unnamed/part_004:78-83
createFilterIsNot(value, args) == ~createFilterIsTest(value, args)

\* the functions the filters __istest__ and __isnot__ are bound to
FilterIsTest == Function("func(any, ...any) bool", "istest")
FilterIsNot == Function("func(any, ...any) bool", "isnot")

InvokeTest(name, value, args) ==
    IF name = "istest" THEN createFilterIsTest(value, args) ELSE createFilterIsNot(value, args)

InvalidArguments == <<"i", "n", "v", "a", "l", "i", "d", " ", "a", "r", "g", "u", "m", "e",
        "n", "t", "s", " ", "f", "o", "r", " ", "f", "u", "n", "c", "t", "i", "o", "n">>
UnsupportedFunctionType == <<"u", "n", "s", "u", "p", "p", "o", "r", "t", "e", "d", " ", "f",
        "u", "n", "c", "t", "i", "o", "n", " ", "t", "y", "p", "e">>

\* callFunction: src/helpers.go:92-198, the signatures the model registers
callFunction(fn, args) ==
    CASE fn.sig = "func(string) RawValue" ->
            IF Len(args) > 0 /\ args[1].k = "str" THEN Ok(Invoke(fn.name, args[1].s))
            ELSE Err(InvalidArguments)
      [] fn.sig = "func(string) string" ->
            IF Len(args) > 0 THEN Ok(Invoke(fn.name, toString(args[1])))
            ELSE Err(InvalidArguments)
      [] fn.sig = "func(any, ...any) bool" ->
            IF Len(args) > 0 THEN Ok(BoolV(InvokeTest(fn.name, args[1], Tail(args))))
            ELSE Err(InvalidArguments)
      [] OTHER -> Err(UnsupportedFunctionType)

\* src/unnamed/part_003:370-374: the escapes of a string literal argument
unescaped(s) ==
    ReplaceAll(ReplaceAll(ReplaceAll(ReplaceAll(s, <<"\\", "n">>, <<"\n">>), <<"\\", "t">>,
            <<"\t">>),
                          <<"\\", "\"">>, <<"\"">>), <<"\\", "\\">>, <<"\\">>)

\* src/unnamed/part_003:382-396: a number literal, or else a path
numberOrPath(argStr, num, data) ==
    IF num.ok
    THEN Ok(IF Contains(argStr, ".") THEN FloatOf(num.f) ELSE IntV(Trunc(num.f)))
    ELSE resolvePath(argStr, data)

\* src/unnamed/part_003:366-396: one argument of a filter call
argumentOf(argStr, data) ==
    IF Len(argStr) > 1 /\ argStr[1] = "\"" /\ argStr[Len(argStr)] = "\""
    THEN Ok(StrV(unescaped(SubSeq(argStr, 2, Len(argStr) - 1))))
    ELSE IF argStr = <<"t", "r", "u", "e">> THEN Ok(BoolV(TRUE))
    ELSE IF argStr = <<"f", "a", "l", "s", "e">> THEN Ok(BoolV(FALSE))
    ELSE numberOrPath(argStr, ParseFloat(argStr), data)

\* src/unnamed/part_003:365-397: the arguments of a filter call, or the
\* error of the first path among them that does not resolve
RECURSIVE argumentsFrom(_, _, _)
RECURSIVE argumentAdded(_, _, _, _)
argumentAdded(r, argStrs, data, arguments) ==
    IF r.status # "ok" THEN r ELSE argumentsFrom(argStrs, data, Append(arguments, r.v))

argumentsFrom(argStrs, data, arguments) ==
    IF argStrs = <<>> THEN Ok(arguments)
    ELSE argumentAdded(argumentOf(TrimSpace(Head(argStrs)), data), Tail(argStrs), data,
            arguments)

\* src/unnamed/part_003:363
argumentsOf(funcParts, data) ==
    IF Len(funcParts) > 1
    THEN argumentsFrom(explodeRespectingQuotes(",", funcParts[2], -1), data, <<>>)
    ELSE Ok(<<>>)

\* applyfilters: src/unnamed/part_003:357-416
RECURSIVE applyfilters(_, _, _, _)
RECURSIVE filterApplied(_, _, _, _)
RECURSIVE filterCalled(_, _, _, _, _, _)
filterApplied(r, parts, filters, data) ==
    IF r.status # "ok" THEN r ELSE applyfilters(r.v, parts, filters, data)

\* lines 401-412
filterCalled(value, funcName, arguments, parts, filters, data) ==
    IF arguments.status # "ok" THEN arguments
    ELSE IF funcName \in DOMAIN filters
    THEN filterApplied(callFunction(filters[funcName], <<value>> \o arguments.v),
                       parts, filters, data)
    ELSE Err(FilterNotFound(funcName))

filterPart(value, funcParts, parts, filters, data) ==
    filterCalled(value, funcParts[1], argumentsOf(funcParts, data), parts, filters, data)

applyfilters(value, parts, filters, data) ==
    IF parts = <<>> THEN Ok(value)
    ELSE filterPart(value, explodeRespectingQuotes("(", TrimSuffix(Head(parts), <<")">>), 2),
                    Tail(parts), filters, data)

(***************************************************************************)
(* The Template: src/tqtemplate.go:355-362.  The loader of templates is    *)
(* the field blocks.go and renderIncludeNode read; a loader is the mapping *)
(* of the names it knows to their texts, and fails for every other name.   *)
(***************************************************************************)
NoLoader == [configured |-> FALSE, files |-> <<>>]
Loader(files) == [configured |-> TRUE, files |-> files]

NewTemplate(escape) == [escape |-> escape, loader |-> NoLoader]
NewTemplateWithLoader(escape, loader) == [escape |-> escape, loader |-> loader]

\* the error of the loaders of src/tqtemplate_blocks_test.go
TemplateNotFound(name) == <<"t", "e", "m", "p", "l", "a", "t", "e", " ", "n", "o", "t", " ",
        "f", "o", "u", "n", "d", ":", " ">> \o name

\* a variant of escapedString that never escapes
escapedStringPlain(t, str) == str

\* src/tqtemplate.go:385-389
escapedString(t, str) == IF t.escape = "html" THEN EscapeString(str) ELSE str

\* escapeValue: src/tqtemplate.go:381-390
escapeValue(t, value) ==
    IF value.k = "raw" THEN value.s ELSE escapedString(t, toString(value))

(***************************************************************************)
(* Rendering.  A render function takes the node, the call's surroundings   *)
(* c (the Template t, the mapping data, the filters and the order in which *)
(* Go happens to range over mappings) and the state st it may change (the  *)
(* heap of nodes and the store of mappings; data is an index into the      *)
(* store, as a Go map is a reference).  It returns the output with the     *)
(* state left behind, an error, or a panic that unwinds every caller.      *)
(***************************************************************************)
Rendered(out, st) == [out |-> out, status |-> "ok", msg |-> <<>>, st |-> st]
\* return "", err
Failure(status, msg, st) == [out |-> <<>>, status |-> status, msg |-> msg, st |-> st]

\* node.Value = b
valueSet(st, node, b) == [st EXCEPT !.nodes[node].Value = BoolV(b)]

\* the inline text of a failing variable tag and of a failing control tag
variableError(t, expressionStr, msg) ==
    escapeValue(t, StrV(<<"{", "{">> \o expressionStr \o <<"!", "!">> \o msg \o <<"}", "}">>))

controlError(t, keyword, expressionStr, msg) ==
    escapeValue(t, StrV(<<"{", "%", " ">> \o keyword \o <<" ">> \o expressionStr \o <<"!",
            "!">> \o msg \o <<" ", "%", "}">>))

NoMatchingIf == <<"c", "o", "u", "l", "d", " ", "n", "o", "t", " ", "f", "i", "n", "d", " ",
        "m", "a", "t", "c", "h", "i", "n", "g", " ">> \o <<Backtick>> \o <<"i",
        "f">> \o <<Backtick>>
InvalidForSyntax == <<"i", "n", "v", "a", "l", "i", "d", " ", "s", "y", "n", "t", "a", "x",
        ",", " ", "e", "x", "p", "e", "c", "t", "e", "d", " ", "\"", "i", "t", "e", "m", " ",
        "i", "n", " ", "a", "r", "r", "a", "y", "\"", " ", "o", "r", " ", "\"", "k", "e", "y",
        ",", " ", "v", "a", "l", "u", "e", " ", "i", "n", " ", "a", "r", "r", "a", "y", "\"">>
NotAnArray == <<"e", "x", "p", "r", "e", "s", "s", "i", "o", "n", " ", "m", "u", "s", "t", " ",
        "e", "v", "a", "l", "u", "a", "t", "e", " ", "t", "o", " ", "a", "n", " ", "a", "r",
        "r", "a", "y">>
NoLoaderForInclude == <<"t", "e", "m", "p", "l", "a", "t", "e", " ", "l", "o", "a", "d", "e",
        "r", " ", "n", "o", "t", " ", "c", "o", "n", "f", "i", "g", "u", "r", "e", "d", " ",
        "f", "o", "r", " ", "i", "n", "c", "l", "u", "d", "e", " ", "d", "i", "r", "e", "c",
        "t", "i", "v", "e">>
NoLoaderForExtends == <<"t", "e", "m", "p", "l", "a", "t", "e", " ", "l", "o", "a", "d", "e",
        "r", " ", "n", "o", "t", " ", "c", "o", "n", "f", "i", "g", "u", "r", "e", "d", " ",
        "f", "o", "r", " ", "e", "x", "t", "e", "n", "d", "s", " ", "d", "i", "r", "e", "c",
        "t", "i", "v", "e">>
IncludeLoadFailed(name) ==
    <<"f", "a", "i", "l", "e", "d", " ", "t", "o", " ", "l", "o", "a", "d", " ", "i", "n", "c",
            "l", "u", "d", "e", "d", " ", "t", "e", "m", "p", "l", "a", "t", "e", " ",
            "'">> \o name \o <<"'", ":", " ">> \o TemplateNotFound(name)
ParentLoadFailed(name) ==
    <<"f", "a", "i", "l", "e", "d", " ", "t", "o", " ", "l", "o", "a", "d", " ", "p", "a", "r",
            "e", "n", "t", " ", "t", "e", "m", "p", "l", "a", "t", "e", " ",
            "'">> \o name \o <<"'", ":", " ">> \o TemplateNotFound(name)

\* a variant of definedOr without the undefined marker
definedOrStrict(r, testFilter, conditional) == r

\* src/unnamed/part_003:97-104: a failed evaluation under a defined or
\* undefined test gives the undefined marker (if and elseif tags only)
definedOr(r, testFilter, conditional) ==
    IF r.status = "err" /\ conditional /\ IsDefinedTest(testFilter) THEN Ok(undefinedValue)
    ELSE r

\* src/unnamed/part_003:83-113: the value of the tag's expression, evaluated
\* and passed through its filters and its test
tagParts(parts, testFilter, conditional, filters, data) ==
    filterApplied(definedOr(Evaluate(NewExpression(parts[1]), data), testFilter, conditional),
                  Tail(parts) \o (IF testFilter # <<>> THEN <<testFilter>> ELSE <<>>),
                  filters, data)

tagTested(is, conditional, filters, data) ==
    tagParts(explodeRespectingQuotes("|", is.expr, -1), is.test, conditional, filters, data)

tagValue(expressionStr, conditional, filters, data) ==
    tagTested(processIsTests(expressionStr), conditional, filters, data)

\* for the header of a for tag: src/unnamed/part_003:226-244
IsNameStart(ch) == IsLetter(ch) \/ ch = "_"
IsNameChar(ch) == IsLetter(ch) \/ IsDigit(ch) \/ ch = "_"

RECURSIVE nameEnd(_, _)
nameEnd(s, i) == IF i < Len(s) /\ IsNameChar(At(s, i)) THEN nameEnd(s, i + 1) ELSE i

RECURSIVE spaceEnd(_, _)
spaceEnd(s, i) == IF i < Len(s) /\ IsSpace(At(s, i)) THEN spaceEnd(s, i + 1) ELSE i

NoMatch == [ok |-> FALSE, hasKey |-> FALSE, key |-> <<>>, varName |-> <<>>, arrayExpr |-> <<>>]

\* \s+in\s+(.+)$ from cursor e: the expression after the whitespace, which
\* holds no line feed.  The text is trimmed, so the whitespace after "in"
\* is followed by a character.
forTail(s, e, hasKey, key, varName) ==
    LET w == spaceEnd(s, e)
        v == spaceEnd(s, w + 2)
    IN  IF /\ w > e /\ w + 2 <= Len(s) /\ Slice(s, w, w + 2) = <<"i", "n">>
           /\ v > w + 2 /\ v < Len(s)
           /\ ~Contains(Slice(s, v, Len(s)), "\n")
        THEN [ok |-> TRUE, hasKey |-> hasKey, key |-> key, varName |-> varName,
              arrayExpr |-> Slice(s, v, Len(s))]
        ELSE NoMatch

\* (?:\s*,\s*NAME)? from cursor e, after the first name
forSecondName(s, e) ==
    LET p == spaceEnd(s, e)
        q == spaceEnd(s, p + 1)
    IN  IF p < Len(s) /\ At(s, p) = "," /\ q < Len(s) /\ IsNameStart(At(s, q))
        THEN [ok |-> TRUE, from |-> q, to |-> nameEnd(s, q)]
        ELSE [ok |-> FALSE, from |-> e, to |-> e]

forNames(s, e, second) ==
    IF second.ok /\ forTail(s, second.to, TRUE, <<>>, <<>>).ok
    THEN forTail(s, second.to, TRUE, Slice(s, 0, e), Slice(s, second.from, second.to))
    ELSE forTail(s, e, FALSE, <<>>, Slice(s, 0, e))

\* the match of the pattern of line 226 with the names of lines 236-244
forHeader(s) ==
    IF s # <<>> /\ IsNameStart(At(s, 0))
    THEN forNames(s, nameEnd(s, 0), forSecondName(s, nameEnd(s, 0)))
    ELSE NoMatch

\* m[k] = v on a mapping
Put(m, key, v) == [x \in DOMAIN m \cup {key} |-> IF x = key THEN v ELSE m[x]]

\* the keys of a mapping in ascending order
RECURSIVE SortedKeys(_)
SortedKeys(keys) ==
    IF keys = {} THEN <<>>
    ELSE LET least == CHOOSE k \in keys : \A j \in keys : j = k \/ StrLess(k, j)
         IN  <<least>> \o SortedKeys(keys \ {least})

\* src/unnamed/part_003:272-275: Go ranges over a mapping in an order of its
\* choosing; the model takes the ascending and the descending order, which
\* are all the orders of the mappings of up to two entries it ranges over
rangeKeys(m, order) ==
    IF order = "ascending" THEN SortedKeys(DOMAIN m) ELSE Reverse(SortedKeys(DOMAIN m))

\* a variant of forKeys that counts the elements of a list from one
forKeysFromOne(v, order) ==
    IF v.k = "list" THEN [i \in 1..Len(v.items) |-> IntV(i)]
    ELSE [i \in 1..Len(rangeKeys(v.m, order)) |-> StrV(rangeKeys(v.m, order)[i])]

\* a variant of forItemsOf that takes the values of a mapping in ascending
\* order of their keys, whatever the order of the keys of the loop
forItemsAscending(v, order) ==
    IF v.k = "list" THEN v.items
    ELSE [i \in 1..Cardinality(DOMAIN v.m) |-> v.m[SortedKeys(DOMAIN v.m)[i]]]

\* src/unnamed/part_003:265-275: the keys and items of the loop
forKeys(v, order) ==
    IF v.k = "list" THEN [i \in 1..Len(v.items) |-> IntV(i - 1)]
    ELSE [i \in 1..Len(rangeKeys(v.m, order)) |-> StrV(rangeKeys(v.m, order)[i])]

forItemsOf(v, order) ==
    IF v.k = "list" THEN v.items
    ELSE [i \in 1..Len(rangeKeys(v.m, order)) |-> v.m[rangeKeys(v.m, order)[i]]]

\* a variant of newData that writes the loop variables into the mapping of
\* the enclosing scope
newDataShared(maps, data) == [maps |-> maps, data |-> data]

\* src/unnamed/part_003:282-285: a fresh mapping with the entries of data
newData(maps, data) == [maps |-> Append(maps, maps[data]), data |-> Len(maps) + 1]

\* src/unnamed/part_003:286-291: the loop variables are set in the new mapping
loopData(scope, header, key, item) ==
    [scope EXCEPT !.maps[scope.data] =
        IF header.hasKey THEN Put(Put(@, header.key, key), header.varName, item)
        ELSE Put(@, header.varName, item)]

RECURSIVE renderChildren(_, _, _)
RECURSIVE renderChildrenFrom(_, _, _, _, _, _)
RECURSIVE childAppended(_, _, _, _, _, _)
RECURSIVE renderChild(_, _, _, _)
RECURSIVE renderNode(_, _, _, _)
RECURSIVE renderIfNode(_, _, _)
RECURSIVE renderElseIfNode(_, _, _, _)
RECURSIVE renderElseNode(_, _, _, _)
RECURSIVE conditionRendered(_, _, _, _, _)
RECURSIVE renderForNode(_, _, _)
RECURSIVE forMatched(_, _, _, _)
RECURSIVE forResolved(_, _, _, _, _)
RECURSIVE forLoop(_, _, _, _, _, _, _, _)
RECURSIVE forIteration(_, _, _, _, _, _, _, _, _)
RECURSIVE forAppended(_, _, _, _, _, _, _, _)
RECURSIVE renderIncludeNode(_, _, _)
RECURSIVE includeLoaded(_, _, _)
RECURSIVE treeRendered(_, _, _)

\* src/unnamed/part_003:135-140 and 203-208: a node of the chain holds true
anyTrue(nodes, ifNodes) ==
    \E k \in 1..Len(ifNodes) : nodes[ifNodes[k]].Value.k = "bool" /\ nodes[ifNodes[k]].Value.b

\* src/unnamed/part_003:129 and 197: the chain does not start with an if
NoChain(nodes, ifNodes) == Len(ifNodes) < 1 \/ nodes[ifNodes[1]].Type # "if"

\* src/unnamed/part_003:115-124 and 180-187, after the body is rendered
bodyRendered(r, node) ==
    IF r.status # "ok" THEN r ELSE Rendered(r.out, valueSet(r.st, node, TRUE))

\* src/unnamed/part_003:106-124 and 171-187: r is the value of the condition.
\* A condition that fails leaves node.Value as it was.
conditionRendered(r, keyword, node, c, st) ==
    IF r.status = "panic" THEN Failure("panic", r.msg, st)
    ELSE IF r.status = "err"
    THEN Rendered(controlError(c.t, keyword, st.nodes[node].Expression, r.msg), st)
    ELSE IF toBool(r.v) THEN bodyRendered(renderChildren(node, c, st), node)
    ELSE Rendered(<<>>, valueSet(st, node, FALSE))

\* renderIfNode: src/unnamed/part_003:77-125
renderIfNode(node, c, st) ==
    conditionRendered(tagValue(st.nodes[node].Expression, TRUE, c.filters, st.maps[c.data]),
                      <<"i", "f">>, node, c, st)

\* renderElseIfNode: src/unnamed/part_003:128-193
renderElseIfNode(node, ifNodes, c, st) ==
    IF NoChain(st.nodes, ifNodes)
    THEN Rendered(controlError(c.t, <<"e", "l", "s", "e", "i", "f">>, <<>>, NoMatchingIf), st)
    ELSE IF anyTrue(st.nodes, ifNodes) THEN Rendered(<<>>, valueSet(st, node, FALSE))
    ELSE conditionRendered(
             tagValue(st.nodes[node].Expression, TRUE, c.filters, st.maps[c.data]),
             <<"e", "l", "s", "e", "i", "f">>, node, c, st)

\* renderElseNode: src/unnamed/part_003:196-219
renderElseNode(node, ifNodes, c, st) ==
    IF NoChain(st.nodes, ifNodes)
    THEN Rendered(controlError(c.t, <<"e", "l", "s", "e">>, <<>>, NoMatchingIf), st)
    ELSE IF anyTrue(st.nodes, ifNodes) THEN Rendered(<<>>, st)
    ELSE renderChildren(node, c, st)

\* src/unnamed/part_003:247-259: the value the loop ranges over
forValue(parts, filters, data) ==
    filterApplied(resolvePath(TrimSpace(parts[1]), data), Tail(parts), filters, data)

\* src/unnamed/part_003:280-297: the iterations from the i-th on
forAppended(r, node, header, keys, items, i, result, c) ==
    IF r.status # "ok" THEN r
    ELSE forLoop(node, header, keys, items, i + 1, result \o r.out, c, r.st)

forIteration(scope, node, header, keys, items, i, result, c, st) ==
    forAppended(renderChildren(node, [c EXCEPT !.data = scope.data],
                               [st EXCEPT !.maps = scope.maps]),
                node, header, keys, items, i, result, c)

forLoop(node, header, keys, items, i, result, c, st) ==
    IF i > Len(items) THEN Rendered(result, st)
    ELSE forIteration(loopData(newData(st.maps, c.data), header, keys[i], items[i]),
                      node, header, keys, items, i, result, c, st)

\* src/unnamed/part_003:252-278: r is the value to range over
forResolved(r, header, node, c, st) ==
    IF r.status # "ok"
    THEN Rendered(controlError(c.t, <<"f", "o", "r">>, st.nodes[node].Expression, r.msg), st)
    ELSE IF r.v.k \in {"list", "map"}
    THEN forLoop(node, header, forKeys(r.v, c.order), forItemsOf(r.v, c.order), 1, <<>>, c, st)
    ELSE Rendered(controlError(c.t, <<"f", "o", "r">>, st.nodes[node].Expression, NotAnArray),
            st)

forMatched(header, node, c, st) ==
    IF ~header.ok
    THEN Rendered(controlError(c.t, <<"f", "o", "r">>, st.nodes[node].Expression,
            InvalidForSyntax), st)
    ELSE forResolved(forValue(explodeRespectingQuotes("|", header.arrayExpr, -1),
                              c.filters, st.maps[c.data]),
                     header, node, c, st)

\* renderForNode: src/unnamed/part_003:222-300
renderForNode(node, c, st) == forMatched(forHeader(st.nodes[node].Expression), node, c, st)

\* src/unnamed/part_003:320-333: r is the value of the tag
variableRendered(r, expressionStr, c, st) ==
    IF r.status = "panic" THEN Failure("panic", r.msg, st)
    ELSE IF r.status = "err" THEN Rendered(variableError(c.t, expressionStr, r.msg), st)
    ELSE IF r.v.k = "raw" THEN Rendered(r.v.s, st)
    ELSE Rendered(escapeValue(c.t, r.v), st)

\* renderVarNode: src/unnamed/part_003:303-334
renderVarNode(node, c, st) ==
    variableRendered(tagValue(st.nodes[node].Expression, FALSE, c.filters, st.maps[c.data]),
                     st.nodes[node].Expression, c, st)

\* src/unnamed/part_003:434-438: the loaded template is parsed and rendered
treeRendered(tree, c, st) == renderChildren(tree.root, c, [st EXCEPT !.nodes = tree.nodes])

includeLoaded(templateName, c, st) ==
    IF templateName \notin DOMAIN c.t.loader.files
    THEN Failure("err", IncludeLoadFailed(templateName), st)
    ELSE treeRendered(createSyntaxTree(tokenize(c.t.loader.files[templateName]), st.nodes),
                      c, st)

\* renderIncludeNode: src/unnamed/part_003:419-439
renderIncludeNode(node, c, st) ==
    IF ~c.t.loader.configured THEN Failure("err", NoLoaderForInclude, st)
    ELSE includeLoaded(Trim(st.nodes[node].Expression, {"'", "\""}), c, st)

\* the cases renderChildren and renderWithBlocks have in common:
\* src/unnamed/part_003:25-59 and src/blocks.go:109-143
renderNode(child, ifNodes, c, st) ==
    CASE st.nodes[child].Type = "if" -> renderIfNode(child, c, st)
      [] st.nodes[child].Type = "elseif" -> renderElseIfNode(child, ifNodes, c, st)
      [] st.nodes[child].Type = "else" -> renderElseNode(child, ifNodes, c, st)
      [] st.nodes[child].Type = "for" -> renderForNode(child, c, st)
      [] st.nodes[child].Type = "var" -> renderVarNode(child, c, st)
      [] OTHER -> Rendered(<<>>, st)

\* the switch of renderChildren: src/unnamed/part_003:16-70
renderChild(child, ifNodes, c, st) ==
    CASE st.nodes[child].Type = "block" -> renderChildren(child, c, st)
      [] st.nodes[child].Type = "include" -> renderIncludeNode(child, c, st)
      [] st.nodes[child].Type = "lit" -> Rendered(st.nodes[child].Expression, st)
      [] OTHER -> renderNode(child, ifNodes, c, st)

ChildrenCases == {"block", "if", "elseif", "else", "for", "var", "include", "lit"}
BlocksCases == {"block", "if", "elseif", "else", "for", "var", "lit"}

\* the chain after a child is rendered; a kind without a case leaves it
ifNodesAfter(type, child, ifNodes, cases) ==
    IF type \notin cases THEN ifNodes
    ELSE IF type = "if" THEN <<child>>
    ELSE IF type = "elseif" THEN Append(ifNodes, child)
    ELSE <<>>

childAppended(r, node, i, ifNodes, result, c) ==
    IF r.status # "ok" THEN r
    ELSE renderChildrenFrom(node, i + 1,
             ifNodesAfter(r.st.nodes[r.st.nodes[node].Children[i]].Type,
                          r.st.nodes[node].Children[i], ifNodes, ChildrenCases),
             result \o r.out, c, r.st)

renderChildrenFrom(node, i, ifNodes, result, c, st) ==
    IF i > Len(st.nodes[node].Children) THEN Rendered(result, st)
    ELSE childAppended(renderChild(st.nodes[node].Children[i], ifNodes, c, st),
                       node, i, ifNodes, result, c)

\* renderChildren: src/unnamed/part_003:11-74
renderChildren(node, c, st) == renderChildrenFrom(node, 1, <<>>, <<>>, c, st)

(***************************************************************************)
(* Template inheritance: src/blocks.go.                                    *)
(***************************************************************************)
\* findExtendsNode: src/blocks.go:9-22 (0 is nil)
RECURSIVE findExtendsFrom(_, _, _)
findExtendsFrom(nodes, children, i) ==
    IF i > Len(children) THEN 0
    ELSE IF nodes[children[i]].Type = "extends" THEN children[i]
    ELSE IF nodes[children[i]].Type = "lit" /\ TrimSpace(nodes[children[i]].Expression) = <<>>
    THEN findExtendsFrom(nodes, children, i + 1)
    ELSE 0

findExtendsNode(nodes, tree) == findExtendsFrom(nodes, nodes[tree].Children, 1)

\* collectBlocks: src/blocks.go:51-64
RECURSIVE walk(_, _, _)
RECURSIVE walkChildren(_, _, _)
walkChildren(nodes, children, blocks) ==
    IF children = <<>> THEN blocks
    ELSE walkChildren(nodes, Tail(children), walk(nodes, Head(children), blocks))

walk(nodes, node, blocks) ==
    walkChildren(nodes, nodes[node].Children,
                 IF nodes[node].Type = "block" THEN Put(blocks, nodes[node].Expression, node)
                 ELSE blocks)

collectBlocks(nodes, tree) == walk(nodes, tree, <<>>)

\* src/blocks.go:85 and 149: whitespace without a line break
IsIndentation(s) == TrimSpace(s) = <<>> /\ ~Contains(s, "\n") /\ ~Contains(s, "\r")

\* src/blocks.go:79-89
precedingWhitespace(nodes, children, i) ==
    IF i > 1 /\ nodes[children[i - 1]].Type = "lit"
       /\ IsIndentation(nodes[children[i - 1]].Expression)
    THEN nodes[children[i - 1]].Expression
    ELSE <<>>

\* src/blocks.go:147-153
precedesBlock(nodes, children, i) ==
    /\ i + 1 <= Len(children)
    /\ nodes[children[i + 1]].Type = "block"
    /\ IsIndentation(nodes[children[i]].Expression)

RECURSIVE renderWithBlocks(_, _, _, _)
RECURSIVE renderWithBlocksFrom(_, _, _, _, _, _, _)
RECURSIVE overriddenAppended(_, _, _, _, _, _, _)
RECURSIVE renderOverridden(_, _, _, _, _, _)
RECURSIVE renderBlock(_, _, _, _, _)

\* src/blocks.go:93-99
prefixed(whitespace, r) == IF r.status # "ok" THEN r ELSE [r EXCEPT !.out = whitespace \o @]

\* src/blocks.go:73-108
renderBlock(tree, i, blockOverrides, c, st) ==
    IF st.nodes[st.nodes[tree].Children[i]].Expression \in DOMAIN blockOverrides
    THEN prefixed(precedingWhitespace(st.nodes, st.nodes[tree].Children, i),
                  renderWithBlocks(
                      blockOverrides[st.nodes[st.nodes[tree].Children[i]].Expression],
                      blockOverrides, c, st))
    ELSE renderWithBlocks(st.nodes[tree].Children[i], blockOverrides, c, st)

\* the switch of renderWithBlocks: src/blocks.go:72-157
renderOverridden(tree, i, ifNodes, blockOverrides, c, st) ==
    CASE st.nodes[st.nodes[tree].Children[i]].Type = "block" ->
            renderBlock(tree, i, blockOverrides, c, st)
      [] st.nodes[st.nodes[tree].Children[i]].Type = "lit" ->
            Rendered(IF precedesBlock(st.nodes, st.nodes[tree].Children, i) THEN <<>>
                     ELSE st.nodes[st.nodes[tree].Children[i]].Expression, st)
      [] OTHER -> renderNode(st.nodes[tree].Children[i], ifNodes, c, st)

overriddenAppended(r, tree, i, ifNodes, result, blockOverrides, c) ==
    IF r.status # "ok" THEN r
    ELSE renderWithBlocksFrom(tree, i + 1,
             ifNodesAfter(r.st.nodes[r.st.nodes[tree].Children[i]].Type,
                          r.st.nodes[tree].Children[i], ifNodes, BlocksCases),
             result \o r.out, blockOverrides, c, r.st)

renderWithBlocksFrom(tree, i, ifNodes, result, blockOverrides, c, st) ==
    IF i > Len(st.nodes[tree].Children) THEN Rendered(result, st)
    ELSE overriddenAppended(renderOverridden(tree, i, ifNodes, blockOverrides, c, st),
                            tree, i, ifNodes, result, blockOverrides, c)

\* renderWithBlocks: src/blocks.go:67-161
renderWithBlocks(tree, blockOverrides, c, st) ==
    renderWithBlocksFrom(tree, 1, <<>>, <<>>, blockOverrides, c, st)

\* src/blocks.go:39-47
parentRendered(parentTree, childBlocks, c, st) ==
    renderWithBlocks(parentTree.root, childBlocks, c, [st EXCEPT !.nodes = parentTree.nodes])

parentLoaded(parentName, childTree, c, st) ==
    IF parentName \notin DOMAIN c.t.loader.files
    THEN Failure("err", ParentLoadFailed(parentName), st)
    ELSE parentRendered(createSyntaxTree(tokenize(c.t.loader.files[parentName]), st.nodes),
                        collectBlocks(st.nodes, childTree), c, st)

\* renderWithExtends: src/blocks.go:25-48
renderWithExtends(childTree, extendsNode, c, st) ==
    IF ~c.t.loader.configured THEN Failure("err", NoLoaderForExtends, st)
    ELSE parentLoaded(Trim(st.nodes[extendsNode].Expression, {"'", "\""}), childTree, c, st)

\* the step of Render that hands a tree starting with an extends tag to
\* renderWithExtends; this step is not among the sources
renderTree(tree, c, st) ==
    IF findExtendsNode(st.nodes, tree) # 0
    THEN renderWithExtends(tree, findExtendsNode(st.nodes, tree), c, st)
    ELSE renderChildren(tree, c, st)

\* src/tqtemplate.go:366-377, the tree being parsed
rendering(tree, c, maps) == renderTree(tree.root, c, [nodes |-> tree.nodes, maps |-> maps])

\* src/tqtemplate.go:370-375: functions["raw"] = ...
rawRegistered(functions) == Put(functions, <<"r", "a", "w">>, RawFilter)

\* src/tqtemplate.go:367-375: functions is the caller's map unless that is
\* nil, and raw is assigned in it; the empty registry of the model is nil
callerFunctions(functions) == IF functions = <<>> THEN <<>> ELSE rawRegistered(functions)

\* the builtin tests are reached through the filters __istest__ and
\* __isnot__ (src/unnamed/part_004:28-83); the code that binds the two names
\* in the registry of a call is not among the sources
testsRegistered(functions) == Put(Put(functions, IsTestName, FilterIsTest), IsNotName,
        FilterIsNot)

\* src/tqtemplate.go:366-367 and 377: the template is parsed and its tree
\* rendered with the functions as they are registered
renderWith(t, tmpl, data, functions, order) ==
    rendering(createSyntaxTree(tokenize(tmpl), <<>>),
              [t |-> t, data |-> 1, filters |-> testsRegistered(functions), order |-> order],
              <<data>>)

\* Render: src/tqtemplate.go:365-378.  The mapping data is the first of the
\* store; order is the order in which Go ranges over mappings in this call.
Render(t, tmpl, data, functions, order) ==
    renderWith(t, tmpl, data, rawRegistered(functions), order)

(***************************************************************************)
(* Render under test.  One call of Render is made per run; its template,   *)
(* context, filters and loader come from the families below.  A request    *)
(* carries, besides the arguments of the call, the text expected of it     *)
(* (expect) and a note on the case it stands for.                          *)
(***************************************************************************)
Request(family, t, tmpl, data, functions, order, expect, note) ==
    [family |-> family, t |-> t, template |-> tmpl, data |-> data,
     functions |-> functions, order |-> order, expect |-> expect, note |-> note]

Orders == {"ascending", "descending"}
Escapes == {"html", "none"}
UpperOnly == [name \in {<<"u", "p", "p", "e", "r">>} |-> UpperFilter]

\* tags that fail, each with the inline text expected in its place
FailingTags ==
    <<  [tag |-> <<"{", "{", " ", "m", "i", "s", "s", "i", "n", "g", " ", "}", "}">>,
            text |-> <<"{", "{", "m", "i", "s", "s", "i", "n", "g", "!", "!", "p", "a", "t",
            "h", " ", Backtick, "m", "i", "s", "s", "i", "n", "g", Backtick, " ", "n", "o",
            "t", " ", "f", "o", "u", "n", "d", "}", "}">>],
        [tag |-> <<"{", "{", " ", "s", "|", "n", "o", "f", "i", "l", "t", "e", "r", " ", "}",
                "}">>, text |-> <<"{", "{", "s", "|", "n", "o", "f", "i", "l", "t", "e", "r",
                "!", "!", "f", "i", "l", "t", "e", "r", " ", Backtick, "n", "o", "f", "i", "l",
                "t", "e", "r", Backtick, " ", "n", "o", "t", " ", "f", "o", "u", "n", "d", "}",
                "}">>],
        [tag |-> <<"{", "{", " ", "n", " ", "/", " ", "0", " ", "}", "}">>, text |-> <<"{",
                "{", "n", " ", "/", " ", "0", "!", "!", "d", "i", "v", "i", "s", "i", "o", "n",
                " ", "b", "y", " ", "z", "e", "r", "o", "}", "}">>],
        [tag |-> <<"{", "{", " ", "n", " ", "%", " ", "0", " ", "}", "}">>, text |-> <<"{",
                "{", "n", " ", "%", " ", "0", "!", "!", "m", "o", "d", "u", "l", "o", " ", "b",
                "y", " ", "z", "e", "r", "o", "}", "}">>],
        [tag |-> <<"{", "{", " ", "n", " ", "+", " ", "}", "}">>, text |-> <<"{", "{", "n",
                " ", "+", "!", "!", "n", "o", "t", " ", "e", "n", "o", "u", "g", "h", " ", "o",
                "p", "e", "r", "a", "n", "d", "s", " ", "f", "o", "r", " ", "'", "+", "'", "}",
                "}">>],
        [tag |-> <<"{", "{", " ", "n", " ", "<", " ", "}", "}">>, text |-> <<"{", "{", "n",
                " ", "<", "!", "!", "n", "o", "t", " ", "e", "n", "o", "u", "g", "h", " ", "o",
                "p", "e", "r", "a", "n", "d", "s", " ", "f", "o", "r", " ", "'", "<", "'", "}",
                "}">>],
        [tag |-> <<"{", "{", " ", "n", " ", "2", " ", "}", "}">>, text |-> <<"{", "{", "n",
                " ", "2", "!", "!", "m", "a", "l", "f", "o", "r", "m", "e", "d", " ", "e", "x",
                "p", "r", "e", "s", "s", "i", "o", "n", "}", "}">>],
        [tag |-> <<"{", "%", " ", "i", "f", " ", "m", "i", "s", "s", "i", "n", "g", " ", "%",
                "}", "x", "{", "%", " ", "e", "n", "d", "i", "f", " ", "%", "}">>,
         text |-> <<"{", "%", " ", "i", "f", " ", "m", "i", "s", "s", "i", "n", "g", "!", "!",
                 "p", "a", "t", "h", " ", Backtick, "m", "i", "s", "s", "i", "n", "g",
                 Backtick, " ", "n", "o", "t", " ", "f", "o", "u", "n", "d", " ", "%", "}">>],
        [tag |-> <<"{", "%", " ", "i", "f", " ", "n", " ", "/", " ", "0", " ", "%", "}", "x",
                "{", "%", " ", "e", "n", "d", "i", "f", " ", "%", "}">>, text |-> <<"{", "%",
                " ", "i", "f", " ", "n", " ", "/", " ", "0", "!", "!", "d", "i", "v", "i", "s",
                "i", "o", "n", " ", "b", "y", " ", "z", "e", "r", "o", " ", "%", "}">>],
        [tag |-> <<"{", "%", " ", "f", "o", "r", " ", "i", " ", "i", "n", " ", "n", " ", "%",
                "}", "x", "{", "%", " ", "e", "n", "d", "f", "o", "r", " ", "%", "}">>,
         text |-> <<"{", "%", " ", "f", "o", "r", " ", "i", " ", "i", "n", " ", "n", "!", "!",
                 "e", "x", "p", "r", "e", "s", "s", "i", "o", "n", " ", "m", "u", "s", "t",
                 " ", "e", "v", "a", "l", "u", "a", "t", "e", " ", "t", "o", " ", "a", "n",
                 " ", "a", "r", "r", "a", "y", " ", "%", "}">>],
        [tag |-> <<"{", "%", " ", "f", "o", "r", " ", "i", " ", "i", "n", " ", "m", "i", "s",
                "s", "i", "n", "g", " ", "%", "}", "x", "{", "%", " ", "e", "n", "d", "f", "o",
                "r", " ", "%", "}">>,
         text |-> <<"{", "%", " ", "f", "o", "r", " ", "i", " ", "i", "n", " ", "m", "i", "s",
                 "s", "i", "n", "g", "!", "!", "p", "a", "t", "h", " ", Backtick, "m", "i",
                 "s", "s", "i", "n", "g", Backtick, " ", "n", "o", "t", " ", "f", "o", "u",
                 "n", "d", " ", "%", "}">>],
        [tag |-> <<"{", "%", " ", "f", "o", "r", " ", "i", " ", "n", " ", "%", "}", "x", "{",
                "%", " ", "e", "n", "d", "f", "o", "r", " ", "%", "}">>,
         text |-> <<"{", "%", " ", "f", "o", "r", " ", "i", " ", "n", "!",
                 "!">> \o InvalidForSyntax \o <<" ", "%", "}">>] >>

\* tags whose expression has a divisor that is neither zero nor whole
FractionTags == {<<"{", "{", " ", "n", " ", "%", " ", "0", ".", "5", " ", "}", "}">>, <<"{",
        "{", " ", "n", " ", "%", " ", "h", " ", "}", "}">>, <<"{", "%", " ", "i", "f", " ",
        "n", " ", "%", " ", "0", ".", "5", " ", "%", "}", "x", "{", "%", " ", "e", "n", "d",
        "i", "f", " ", "%", "}">>}

FailingData ==
    [key \in {<<"n">>, <<"s">>, <<"h">>} |->
        CASE key = <<"n">> -> IntV(5) [] key = <<"s">> -> StrV(<<"a", "<",
                "b">>) [] key = <<"h">> -> FloatV(1, 2)]

\* a sibling after the failing tag, and what it renders
Siblings == {[tag |-> <<"b">>, text |-> <<"b">>], [tag |-> <<"b", "{", "{", " ", "n", " ", "}",
        "}">>, text |-> <<"b", "5">>]}

FailingRequests ==
    {Request("failing", NewTemplate("html"), before \o FailingTags[k].tag \o after.tag,
             FailingData, <<>>, "ascending",
             before \o EscapeString(FailingTags[k].text) \o after.text, "inline") :
        before \in {<<>>, <<"a">>}, k \in 1..Len(FailingTags), after \in Siblings}
    \cup
    {Request("failing", NewTemplate("html"), tag \o after.tag, FailingData, <<>>,
             "ascending", <<>>, "fraction") :
        tag \in FractionTags, after \in Siblings}

\* an if/elseif/else chain, rendered once or once per item of a list; p and
\* q are true, false or absent from the mapping they are looked up in
Truths == {"true", "false", "absent"}

ChainItem(p, q) ==
    [key \in {name \in {<<"p">>, <<"q">>} : (IF name = <<"p">> THEN p ELSE q) # "absent"} |->
        BoolV((IF key = <<"p">> THEN p ELSE q) = "true")]

\* what the chain if P / elseif Q / else is to render: A when p is true,
\* else B when q is true, else C; a condition that cannot be evaluated
\* leaves its inline text and does not match
ChainText(p, q, ifError, elseifError) ==
    IF p = "true" THEN <<"A">>
    ELSE (IF p = "absent" THEN ifError ELSE <<>>)
         \o (IF q = "true" THEN <<"B">>
             ELSE (IF q = "absent" THEN elseifError ELSE <<>>) \o <<"C">>)

LoopedChain == <<"{", "%", " ", "f", "o", "r", " ", "i", " ", "i", "n", " ", "i", "t", "e",
        "m", "s", " ", "%", "}", "{", "%", " ", "i", "f", " ", "i", ".", "p", " ", "%", "}",
        "A", "{", "%", " ", "e", "l", "s", "e", "i", "f", " ", "i", ".", "q", " ", "%", "}",
        "B", "{", "%", " ", "e", "l", "s", "e", " ", "%", "}", "C", "{", "%", " ", "e", "n",
        "d", "i", "f", " ", "%", "}", "{", "%", " ", "e", "n", "d", "f", "o", "r", " ", "%",
        "}">>
LoopedChainText(item) ==
    ChainText(item.p, item.q, <<"{", "%", " ", "i", "f", " ", "i", ".", "p", "!", "!", "p",
            "a", "t", "h", " ", Backtick, "p", Backtick, " ", "n", "o", "t", " ", "f", "o",
            "u", "n", "d", " ", "%", "}">>,
              <<"{", "%", " ", "e", "l", "s", "e", "i", "f", " ", "i", ".", "q", "!", "!", "p",
                      "a", "t", "h", " ", Backtick, "q", Backtick, " ", "n", "o", "t", " ",
                      "f", "o", "u", "n", "d", " ", "%", "}">>)

SingleChain == <<"{", "%", " ", "i", "f", " ", "p", " ", "%", "}", "A", "{", "%", " ", "e",
        "l", "s", "e", "i", "f", " ", "q", " ", "%", "}", "B", "{", "%", " ", "e", "l", "s",
        "e", " ", "%", "}", "C", "{", "%", " ", "e", "n", "d", "i", "f", " ", "%", "}">>
SingleChainText(item) ==
    ChainText(item.p, item.q, <<"{", "%", " ", "i", "f", " ", "p", "!", "!", "p", "a", "t",
            "h", " ", Backtick, "p", Backtick, " ", "n", "o", "t", " ", "f", "o", "u", "n",
            "d", " ", "%", "}">>,
              <<"{", "%", " ", "e", "l", "s", "e", "i", "f", " ", "q", "!", "!", "p", "a", "t",
                      "h", " ", Backtick, "q", Backtick, " ", "n", "o", "t", " ", "f", "o",
                      "u", "n", "d", " ", "%", "}">>)

ChainItems == [p : Truths, q : Truths]
ChainLists == {<<a>> : a \in ChainItems} \cup {<<a, b>> : a, b \in ChainItems}

ItemsData(items) ==
    [key \in {<<"i", "t", "e", "m",
            "s">>} |-> ListV([k \in 1..Len(items) |-> MapV(ChainItem(items[k].p, items[k].q))])]

ChainRequests ==
    {Request("chain", NewTemplate("html"), LoopedChain, ItemsData(items), <<>>, "ascending",
             Concat([k \in 1..Len(items) |-> LoopedChainText(items[k])]), "looped") :
        items \in ChainLists}
    \cup
    {Request("chain", NewTemplate("html"), SingleChain, ChainItem(item.p, item.q), <<>>,
             "ascending", SingleChainText(item), "single") :
        item \in ChainItems}

\* for-loops, possibly nested, whose variables shadow the x and y of the
\* enclosing scope; the probe prints x and y before the loop, after it, and
\* at both ends of the loop body, around the inner loop
Probe == <<"{", "{", "x", "}", "}", "{", "{", "y", "}", "}">>
Headers == {<<"x">>, <<"y">>, <<"x", ",", " ", "y">>, <<"y", ",", " ", "x">>}
Iterables == {<<"l">>, <<"m">>}

ForLoop(header, iterable, body) ==
    <<"{", "%", " ", "f", "o", "r", " ">> \o header \o <<" ", "i", "n",
            " ">> \o iterable \o <<" ", "%", "}">> \o body \o <<"{", "%", " ", "e", "n", "d",
            "f", "o", "r", " ", "%", "}">>

InnerLoops ==
    {<<>>} \cup {ForLoop(header, iterable, <<"{", "{", "x", "}", "}">>) : header \in Headers,
            iterable \in Iterables}

LoopTemplate(header, iterable, inner) ==
    Probe \o <<"#">> \o ForLoop(header, iterable,
            <<"[">> \o Probe \o <<"|">> \o inner \o <<"|">> \o Probe \o <<"]">>)
    \o <<"#">> \o Probe

LoopData ==
    [key \in {<<"x">>, <<"l">>, <<"m">>} |->
        CASE key = <<"x">> -> StrV(<<"o">>)
          [] key = <<"l">> -> ListV(<<IntV(1), IntV(2)>>)
          [] key = <<"m">> -> MapV([name \in {<<"a">>,
                  <<"b">>} |-> IF name = <<"a">> THEN IntV(3) ELSE IntV(4)])]

LoopRequests ==
    {Request("loop", NewTemplate("html"), LoopTemplate(header, iterable, inner), LoopData,
             <<>>, order, <<>>, IF inner = <<>> THEN "flat" ELSE "nested") :
        header \in Headers, iterable \in Iterables, inner \in InnerLoops, order \in Orders}

\* variable tags over texts with the characters HTML gives a meaning to;
\* a tag is noted raw when the last filter of its chain is raw, applied to
\* a string, and expect is then the text marked raw
VarTexts == {<<"<", "b", ">">>, <<"a", "&", "b">>, <<"\"", "'">>, <<"o", "k">>}

VarTags(text) ==
    {   [tag |-> <<"{", "{", " ", "s", " ", "}", "}">>, note |-> "escaped", expect |-> <<>>],
        [tag |-> <<"{", "{", " ", "\"", "<", "\"", " ", "+", " ", "s", " ", "}", "}">>,
                note |-> "escaped", expect |-> <<>>],
        [tag |-> <<"{", "{", " ", "s", "|", "u", "p", "p", "e", "r", " ", "}", "}">>,
                note |-> "escaped", expect |-> <<>>],
        [tag |-> <<"{", "{", " ", "s", "|", "r", "a", "w", "|", "u", "p", "p", "e", "r", " ",
                "}", "}">>, note |-> "escaped", expect |-> <<>>],
        [tag |-> <<"{", "{", " ", "s", " ", "<", " ", "}", "}">>, note |-> "escaped",
                expect |-> <<>>],
        [tag |-> <<"{", "{", " ", "s", "|", "n", "o", "f", "i", "l", "t", "e", "r", "(", "\"",
                "<", "\"", ")", " ", "}", "}">>, note |-> "escaped", expect |-> <<>>],
        [tag |-> <<"{", "{", " ", "s", "|", "r", "a", "w", " ", "}", "}">>, note |-> "raw",
                expect |-> text],
        [tag |-> <<"{", "{", " ", "s", "|", "u", "p", "p", "e", "r", "|", "r", "a", "w", " ",
                "}", "}">>, note |-> "raw", expect |-> ToUpper(text)] }

VarRequestsOf(text) ==
    {Request("var", NewTemplate(escape), v.tag, [key \in {<<"s">>} |-> StrV(text)], UpperOnly,
             "ascending", v.expect, v.note) :
        escape \in Escapes, v \in VarTags(text)}

VarRequests == UNION {VarRequestsOf(text) : text \in VarTexts}

\* include tags: at top level, in a loop, in an if, in a block, and in a
\* parent template that the template under test extends.  The included
\* template prints v in capitals; "outer" includes it between brackets.
ItemText(name, v) ==
    IF name = <<"i", "t", "e", "m">> THEN ToUpper(v) ELSE <<"[">> \o ToUpper(v) \o <<"]">>

IncludeTag(name) == <<"{", "%", " ", "i", "n", "c", "l", "u", "d", "e", " ",
        "\"">> \o name \o <<"\"", " ", "%", "}">>

IncludeFiles(name) ==
    [file \in {<<"i", "t", "e", "m">>, <<"o", "u", "t", "e", "r">>, <<"l", "o", "s", "t">>,
            <<"b", "a", "s", "e">>} |->
        CASE file = <<"i", "t", "e", "m">> -> <<"{", "{", " ", "v", "|", "u", "p", "p", "e",
                "r", " ", "}", "}">>
          [] file = <<"o", "u", "t", "e", "r">> -> <<"[", "{", "%", " ", "i", "n", "c", "l",
                  "u", "d", "e", " ", "'", "i", "t", "e", "m", "'", " ", "%", "}", "]">>
          [] file = <<"l", "o", "s", "t">> -> <<"[", "{", "%", " ", "i", "n", "c", "l", "u",
                  "d", "e", " ", "'", "m", "i", "s", "s", "i", "n", "g", "'", " ", "%", "}",
                  "]">>
          [] file = <<"b", "a", "s", "e">> ->
                <<"h">> \o IncludeTag(name) \o <<"|", "{", "%", " ", "b", "l", "o", "c", "k",
                        " ", "c", " ", "%", "}">> \o IncludeTag(name) \o <<"{", "%", " ", "e",
                        "n", "d", "b", "l", "o", "c", "k", " ", "%", "}">>]

IncludeData ==
    [key \in {<<"v">>, <<"l">>} |->
        IF key = <<"v">> THEN StrV(<<"x">>) ELSE ListV(<<StrV(<<"p">>), StrV(<<"q">>)>>)]

IncludeShapes(name) ==
    {   [tmpl |-> <<"a">> \o IncludeTag(name) \o <<"b">>,
         expect |-> <<"a">> \o ItemText(name, <<"x">>) \o <<"b">>],
        [tmpl |-> ForLoop(<<"v">>, <<"l">>, IncludeTag(name)),
         expect |-> ItemText(name, <<"p">>) \o ItemText(name, <<"q">>)],
        [tmpl |-> <<"{", "%", " ", "i", "f", " ", "v", " ", "%",
                "}">> \o IncludeTag(name) \o <<"{", "%", " ", "e", "n", "d", "i", "f", " ",
                "%", "}">>,
         expect |-> ItemText(name, <<"x">>)],
        [tmpl |-> <<"{", "%", " ", "b", "l", "o", "c", "k", " ", "c", " ", "%",
                "}">> \o IncludeTag(name) \o <<"{", "%", " ", "e", "n", "d", "b", "l", "o",
                "c", "k", " ", "%", "}">>,
         expect |-> ItemText(name, <<"x">>)],
        [tmpl |-> <<"{", "%", " ", "e", "x", "t", "e", "n", "d", "s", " ", "\"", "b", "a", "s",
                "e", "\"", " ", "%", "}">>,
         expect |-> <<"h">> \o ItemText(name, <<"x">>) \o <<"|">> \o ItemText(name, <<"x">>)],
        [tmpl |-> <<"{", "%", " ", "e", "x", "t", "e", "n", "d", "s", " ", "\"", "b", "a", "s",
                "e", "\"", " ", "%", "}", "{", "%", " ", "b", "l", "o", "c", "k", " ", "c",
                " ", "%", "}", "c">> \o IncludeTag(name) \o <<"{", "%", " ", "e", "n", "d",
                "b", "l", "o", "c", "k", " ", "%", "}">>,
         expect |-> <<"h">> \o ItemText(name, <<"x">>) \o <<"|", "c">> \o ItemText(name,
                 <<"x">>)] }

Loading == {<<"i", "t", "e", "m">>, <<"o", "u", "t", "e", "r">>}
Failing == {<<"m", "i", "s", "s", "i", "n", "g">>, <<"l", "o", "s", "t">>}

\* the loader knows the included name, and the tag is to render its template
LoadingRequests(name) ==
    {Request("include", NewTemplateWithLoader(escape, Loader(IncludeFiles(name))), shape.tmpl,
             IncludeData, UpperOnly, "ascending", shape.expect, "loads") :
        escape \in Escapes, shape \in IncludeShapes(name)}

\* the loader fails for the name, or for a name the included template includes
FailingLoads(name) ==
    {Request("include", NewTemplateWithLoader("html", Loader(IncludeFiles(name))), shape.tmpl,
             IncludeData, UpperOnly, "ascending", <<>>, "broken") :
        shape \in IncludeShapes(name)}

\* no loader is configured
LoaderlessRequests(name) ==
    {Request("include", NewTemplate("html"), shape.tmpl, IncludeData, UpperOnly, "ascending",
             <<>>, "broken") :
        shape \in IncludeShapes(name)}

\* the loader fails for the parent
UnknownParent ==
    Request("include", NewTemplateWithLoader("html", Loader(IncludeFiles(<<"i", "t", "e",
            "m">>))),
            <<"{", "%", " ", "e", "x", "t", "e", "n", "d", "s", " ", "\"", "n", "o", "w", "h",
                    "e", "r", "e", "\"", " ", "%", "}", "{", "%", " ", "b", "l", "o", "c", "k",
                    " ", "c", " ", "%", "}", "c", "{", "%", " ", "e", "n", "d", "b", "l", "o",
                    "c", "k", " ", "%", "}">>, IncludeData, UpperOnly,
            "ascending", <<>>, "broken")

IncludeRequests ==
    UNION ({LoadingRequests(name) \cup LoaderlessRequests(name) : name \in Loading}
           \cup {FailingLoads(name) : name \in Failing}
           \cup {{UnknownParent}})

\* a child that extends a parent with the blocks a, b inside a, and c inside
\* the body of an if; the child overrides the blocks of the set chosen
Parent == <<"<", "{", "%", " ", "b", "l", "o", "c", "k", " ", "a", " ", "%", "}", "A", "{",
        "%", " ", "b", "l", "o", "c", "k", " ", "b", " ", "%", "}", "B", "{", "%", " ", "e",
        "n", "d", "b", "l", "o", "c", "k", " ", "%", "}", "a", "{", "%", " ", "e", "n", "d",
        "b", "l", "o", "c", "k", " ", "%", "}", "|", "{", "%", " ", "i", "f", " ", "f", " ",
        "%", "}", "{", "%", " ", "b", "l", "o", "c", "k", " ", "c", " ", "%", "}", "C", "{",
        "%", " ", "e", "n", "d", "b", "l", "o", "c", "k", " ", "%", "}", "{", "%", " ", "e",
        "n", "d", "i", "f", " ", "%", "}", ">">>

Override(name, text) == <<"{", "%", " ", "b", "l", "o", "c", "k", " ">> \o name \o <<" ", "%",
        "}">> \o text \o <<"{", "%", " ", "e", "n", "d", "b", "l", "o", "c", "k", " ", "%",
        "}">>

Child(chosen) ==
    <<"{", "%", " ", "e", "x", "t", "e", "n", "d", "s", " ", "\"", "p", "a", "r", "e", "n",
            "t", "\"", " ", "%", "}">>
    \o (IF "a" \in chosen THEN Override(<<"a">>, <<"X">>) ELSE <<>>)
    \o (IF "b" \in chosen THEN Override(<<"b">>, <<"Y">>) ELSE <<>>)
    \o (IF "c" \in chosen THEN Override(<<"c">>, <<"Z">>) ELSE <<>>)

\* the parent's rendering with the chosen blocks replaced
ChildText(chosen, f) ==
    <<"<">>
    \o (IF "a" \in chosen THEN <<"X">>
        ELSE <<"A">> \o (IF "b" \in chosen THEN <<"Y">> ELSE <<"B">>) \o <<"a">>)
    \o <<"|">>
    \o (IF ~f THEN <<>> ELSE IF "c" \in chosen THEN <<"Z">> ELSE <<"C">>)
    \o <<">">>

ExtendsRequests ==
    {Request("extends",
             NewTemplateWithLoader(escape, Loader([file \in {<<"p", "a", "r", "e", "n",
                     "t">>} |-> Parent])),
             Child(chosen), [key \in {<<"f">>} |-> BoolV(f)], <<>>, "ascending",
             ChildText(chosen, f), IF "c" \in chosen THEN "conditional" ELSE "plain") :
        escape \in Escapes, chosen \in SUBSET {"a", "b", "c"}, f \in BOOLEAN}

\* the tests defined and undefined, plain and negated, in an if and in an
\* elseif tag, on a key absent from the context, a key present with a nil
\* value and a key present with a string
DefinedTests ==
    {   [test |-> <<"d", "e", "f", "i", "n", "e", "d">>, absent |-> FALSE], [test |-> <<"u",
            "n", "d", "e", "f", "i", "n", "e", "d">>, absent |-> TRUE],
        [test |-> <<"n", "o", "t", " ", "d", "e", "f", "i", "n", "e", "d">>, absent |-> TRUE],
                [test |-> <<"n", "o", "t", " ", "u", "n", "d", "e", "f", "i", "n", "e", "d">>,
                absent |-> FALSE] }

DefinedKeys == {<<"m", "i", "s", "s", "i", "n", "g">>, <<"n", "o", "t", "h", "i", "n", "g">>,
        <<"s">>, <<"m", ".", "m", "i", "s", "s", "i", "n", "g">>, <<"m", ".", "n", "o", "t",
        "h", "i", "n", "g">>}

DefinedData ==
    [key \in {<<"n", "o", "t", "h", "i", "n", "g">>, <<"s">>, <<"n", "o">>, <<"m">>} |->
        CASE key = <<"n", "o", "t", "h", "i", "n", "g">> -> NilV
          [] key = <<"s">> -> StrV(<<"v">>)
          [] key = <<"n", "o">> -> BoolV(FALSE)
          [] key = <<"m">> -> MapV([name \in {<<"n", "o", "t", "h", "i", "n", "g">>} |-> NilV])]

IsAbsent(key) == key \in {<<"m", "i", "s", "s", "i", "n", "g">>, <<"m", ".", "m", "i", "s",
        "s", "i", "n", "g">>}

DefinedTemplates(condition) ==
    {   [tmpl |-> <<"{", "%", " ", "i", "f", " ">> \o condition \o <<" ", "%", "}", "Y", "{",
            "%", " ", "e", "l", "s", "e", " ", "%", "}", "N", "{", "%", " ", "e", "n", "d",
            "i", "f", " ", "%", "}">>, note |-> "if"],
        [tmpl |-> <<"{", "%", " ", "i", "f", " ", "n", "o", " ", "%", "}", "X", "{", "%", " ",
                "e", "l", "s", "e", "i", "f", " ">> \o condition \o <<" ", "%", "}", "Y", "{",
                "%", " ", "e", "l", "s", "e", " ", "%", "}", "N", "{", "%", " ", "e", "n", "d",
                "i", "f", " ", "%", "}">>,
         note |-> "elseif"] }

DefinedRequestsOf(key, is) ==
    {Request("defined", NewTemplate("html"), shape.tmpl, DefinedData, <<>>, "ascending",
             IF IsAbsent(key) = is.absent THEN <<"Y">> ELSE <<"N">>, shape.note) :
        shape \in DefinedTemplates(key \o <<" ", "i", "s", " ">> \o is.test)}

DefinedRequests ==
    UNION {DefinedRequestsOf(key, is) : key \in DefinedKeys, is \in DefinedTests}

\* the same tests in a variable tag, which writes 1 for true and nothing
\* for false
TestedRequestsOf(key, is) ==
    {Request("tested", NewTemplate("html"), <<"[", "{", "{", " ">> \o key \o <<" ", "i", "s",
            " ">> \o is.test \o <<" ", "}", "}", "]">>,
             DefinedData, <<>>, "ascending",
             IF IsAbsent(key) = is.absent THEN <<"[", "1", "]">> ELSE <<"[", "]">>,
             IF IsAbsent(key) THEN "absent" ELSE "present")}

TestedRequests ==
    UNION {TestedRequestsOf(key, is) : key \in DefinedKeys, is \in DefinedTests}

\* tests that no registry knows, on a key that is present
UnknownTests == {<<"s", " ", "i", "s", " ", "n", "o", "s", "u", "c", "h", "t", "e", "s", "t">>,
        <<"s", " ", "i", "s", " ", "n", "o", "t", " ", "n", "o", "s", "u", "c", "h", "t", "e",
        "s", "t">>, <<"s", " ", "i", "s", " ", "n", "o", "s", "u", "c", "h", "t", "e", "s",
        "t", "(", "1", ")">>}

UnknownTestTemplates(condition) ==
    {   <<"{", "{", " ">> \o condition \o <<" ", "}", "}", "b">>,
        <<"{", "%", " ", "i", "f", " ">> \o condition \o <<" ", "%", "}", "Y", "{", "%", " ",
                "e", "l", "s", "e", " ", "%", "}", "N", "{", "%", " ", "e", "n", "d", "i", "f",
                " ", "%", "}", "b">>,
        <<"{", "%", " ", "i", "f", " ", "n", "o", " ", "%", "}", "X", "{", "%", " ", "e", "l",
                "s", "e", "i", "f", " ">> \o condition \o <<" ", "%", "}", "Y", "{", "%", " ",
                "e", "l", "s", "e", " ", "%", "}", "N", "{", "%", " ", "e", "n", "d", "i", "f",
                " ", "%", "}", "b">> }

UnknownTestRequests ==
    {Request("unknowntest", NewTemplate("html"), tmpl, DefinedData, <<>>, "ascending", <<>>,
             "unknown") :
        tmpl \in UNION {UnknownTestTemplates(condition) : condition \in UnknownTests}}

\* loops over the lists of up to MaxItems elements, with the value
\* identifier alone and with an identifier for the index
MaxItems == 3
Elements == {IntV(7), StrV(<<"a">>)}
ElementLists == UNION {[1..n -> Elements] : n \in 0..MaxItems}

ValueLoop == <<"<", "{", "%", " ", "f", "o", "r", " ", "v", " ", "i", "n", " ", "l", " ", "%",
        "}", "{", "{", " ", "v", " ", "}", "}", ";", "{", "%", " ", "e", "n", "d", "f", "o",
        "r", " ", "%", "}", ">">>
IndexLoop == <<"<", "{", "%", " ", "f", "o", "r", " ", "i", ",", " ", "v", " ", "i", "n", " ",
        "l", " ", "%", "}", "{", "{", " ", "i", " ", "}", "}", "=", "{", "{", " ", "v", " ",
        "}", "}", ";", "{", "%", " ", "e", "n", "d", "f", "o", "r", " ", "%", "}", ">">>

ValueText(items) == Concat([k \in 1..Len(items) |-> toString(items[k]) \o <<";">>])
IndexText(items) ==
    Concat([k \in 1..Len(items) |-> Itoa(k - 1) \o <<"=">> \o toString(items[k]) \o <<";">>])

SequenceRequests ==
    {Request("sequence", NewTemplate("html"), ValueLoop, [key \in {<<"l">>} |-> ListV(items)],
             <<>>, order, <<"<">> \o ValueText(items) \o <<">">>, "value") :
        items \in ElementLists, order \in Orders}
    \cup
    {Request("sequence", NewTemplate("html"), IndexLoop, [key \in {<<"l">>} |-> ListV(items)],
             <<>>, order, <<"<">> \o IndexText(items) \o <<">">>, "index") :
        items \in ElementLists, order \in Orders}

\* loops over mappings of up to three entries; expect holds the entries in
\* ascending order of the keys
EntryKeys == {<<"a">>, <<"b">>, <<"c">>}
EntryValue(key) == CASE key = <<"a">> -> IntV(3) [] key = <<"b">> -> IntV(4) [] key = <<"c">> -> IntV(5)
Mappings == {[key \in keys |-> EntryValue(key)] : keys \in SUBSET EntryKeys}

EntryLoop == <<"{", "%", " ", "f", "o", "r", " ", "k", ",", " ", "v", " ", "i", "n", " ", "m",
        " ", "%", "}", "{", "{", " ", "k", " ", "}", "}", "=", "{", "{", " ", "v", " ", "}",
        "}", ";", "{", "%", " ", "e", "n", "d", "f", "o", "r", " ", "%", "}">>
EntryText(m) ==
    Concat([k \in 1..Cardinality(DOMAIN m) |->
                SortedKeys(DOMAIN m)[k] \o <<"=">> \o toString(m[SortedKeys(DOMAIN m)[k]]) \o <<";">>])

MappingRequests ==
    {Request("mapping", NewTemplate("html"), EntryLoop, [key \in {<<"m">>} |-> MapV(m)], <<>>,
             order, EntryText(m), "entries") :
        m \in Mappings, order \in Orders}

\* expressions as the sequences of their tokens, with what a variable tag
\* writes for them when single spaces separate the tokens (n is 5, s is v)
SpacedExpressions ==
    {   [tokens |-> <<<<"n">>, <<"+">>, <<"2">>, <<"*">>, <<"(">>, <<"n">>, <<"-">>, <<"1">>,
            <<")">>>>, text |-> <<"1", "3">>, kind |-> "operators"],
        [tokens |-> <<<<"n">>, <<">">>, <<"2">>, <<"a", "n", "d">>, <<"n", "o", "t">>, <<"(">>,
                <<"s">>, <<"=", "=">>, <<"\"", "w", "\"">>, <<")">>>>, text |-> <<"1">>,
         kind |-> "operators"],
        [tokens |-> <<<<"s">>, <<"i", "s">>, <<"d", "e", "f", "i", "n", "e", "d">>>>,
                text |-> <<"1">>, kind |-> "test"],
        [tokens |-> <<<<"s">>, <<"i", "s">>, <<"n", "o", "t">>, <<"d", "e", "f", "i", "n", "e",
                "d">>>>, text |-> <<>>, kind |-> "test"],
        [tokens |-> <<<<"n">>, <<"+">>, <<"1">>, <<"i", "s">>, <<"e", "v", "e", "n">>>>,
                text |-> <<"1">>, kind |-> "test"] }

\* the whitespace put between every two tokens
Spacings == {<<" ">>, <<" ", " ">>, <<"\t">>, <<"\n">>, <<"\r", "\n">>, <<" ", "\n", " ">>}

RECURSIVE Joined(_, _)
Joined(words, spacing) ==
    IF Len(words) = 1 THEN Head(words)
    ELSE Head(words) \o spacing \o Joined(Tail(words), spacing)

SpacingRequests ==
    {Request("spacing", NewTemplate("html"), <<"{", "{", " ">> \o Joined(e.tokens,
            spacing) \o <<" ", "}", "}">>,
             [key \in {<<"n">>, <<"s">>} |-> IF key = <<"n">> THEN IntV(5) ELSE StrV(<<"v">>)],
                     <<>>,
             "ascending", e.text, e.kind) :
        e \in SpacedExpressions, spacing \in Spacings}
    \cup
    {Request("spacing", NewTemplate("html"),
             <<"{", "%", " ", "i", "f", " ">> \o Joined(e.tokens, spacing) \o <<" ", "%", "}",
                     "Y", "{", "%", " ", "e", "l", "s", "e", " ", "%", "}", "N", "{", "%", " ",
                     "e", "n", "d", "i", "f", " ", "%", "}">>,
             [key \in {<<"n">>, <<"s">>} |-> IF key = <<"n">> THEN IntV(5) ELSE StrV(<<"v">>)],
                     <<>>,
             "ascending", IF e.text = <<>> THEN <<"N">> ELSE <<"Y">>, e.kind) :
        e \in SpacedExpressions, spacing \in Spacings}
    \cup
    {Request("spacing", NewTemplate("html"),
             <<"{", "%", " ", "i", "f", " ", "0", " ", "%", "}", "X", "{", "%", " ", "e", "l",
                     "s", "e", "i", "f", " ">> \o Joined(e.tokens, spacing) \o <<" ", "%", "}",
                     "Y", "{", "%", " ", "e", "l", "s", "e", " ", "%", "}", "N", "{", "%", " ",
                     "e", "n", "d", "i", "f", " ", "%", "}">>,
             [key \in {<<"n">>, <<"s">>} |-> IF key = <<"n">> THEN IntV(5) ELSE StrV(<<"v">>)],
                     <<>>,
             "ascending", IF e.text = <<>> THEN <<"N">> ELSE <<"Y">>, e.kind) :
        e \in SpacedExpressions, spacing \in Spacings}

\* registries of the caller: without raw, with a raw of the caller's own
OwnRaw == [name \in {<<"r", "a", "w">>, <<"u", "p", "p", "e", "r">>} |-> UpperFilter]

RegistryRequests ==
    {Request("registry", NewTemplate("html"), tmpl, [key \in {<<"s">>} |-> StrV(<<"v">>)],
            functions,
             "ascending", <<>>, IF <<"r", "a",
                     "w">> \in DOMAIN functions THEN "own" ELSE "none") :
        tmpl \in {<<"a">>, <<"{", "{", " ", "s", "|", "u", "p", "p", "e", "r", " ", "}", "}">>,
                <<"{", "{", " ", "s", "|", "r", "a", "w", " ", "}", "}">>},
                functions \in {UpperOnly, OwnRaw}}

\* texts without a tag: every text of up to MaxPlain characters, braces and
\* the second characters of the delimiters among them, in which no "{" is
\* followed by "{", "%" or "#"
MaxPlain == 3
PlainChars == {"{", "}", "%", "#", "<", "\n"}

RECURSIVE Texts(_)
Texts(n) ==
    IF n = 0 THEN {<<>>}
    ELSE Texts(n - 1) \cup {Append(text, c) : text \in Texts(n - 1), c \in PlainChars}

HasOpener(text) ==
    \E k \in 1..(Len(text) - 1) : text[k] = "{" /\ text[k + 1] \in {"{", "%", "#"}

PlainData == {<<>>, [key \in {<<"s">>} |-> StrV(<<"<", "v", ">">>)]}

PlainRequests ==
    {Request("plain", NewTemplate(escape), text, data, <<>>, "ascending", text, "") :
        escape \in Escapes, text \in {x \in Texts(MaxPlain) : ~HasOpener(x)},
                data \in PlainData}

\* if chains rendered once per element of a list of zeros and ones; alone
\* holds what the chain renders for each element in a list of that element
\* only.  The condition 6 / x fails for 0.
IteratedChains ==
    {   [body |-> <<"{", "%", " ", "i", "f", " ", "x", " ", "%", "}", "T", "{", "%", " ", "e",
            "l", "s", "e", " ", "%", "}", "E", "{", "%", " ", "e", "n", "d", "i", "f", " ",
            "%", "}", ";">>,
         alone |-> <<<<"E", ";">>, <<"T", ";">>>>, kind |-> "plain"],
        [body |-> <<"{", "%", " ", "i", "f", " ", "6", " ", "/", " ", "x", " ", "%", "}", "T",
                "{", "%", " ", "e", "l", "s", "e", " ", "%", "}", "E", "{", "%", " ", "e", "n",
                "d", "i", "f", " ", "%", "}", ";">>,
         alone |-> <<<<"{", "%", " ", "i", "f", " ", "6", " ", "/", " ", "x", "!", "!", "d",
                 "i", "v", "i", "s", "i", "o", "n", " ", "b", "y", " ", "z", "e", "r", "o",
                 " ", "%", "}", "E", ";">>, <<"T", ";">>>>, kind |-> "failing if"],
        [body |-> <<"{", "%", " ", "i", "f", " ", "x", " ", "<", " ", "0", " ", "%", "}", "N",
                "{", "%", " ", "e", "l", "s", "e", "i", "f", " ", "6", " ", "/", " ", "x", " ",
                "%", "}", "T", "{", "%", " ", "e", "l", "s", "e", " ", "%", "}", "E", "{", "%",
                " ", "e", "n", "d", "i", "f", " ", "%", "}", ";">>,
         alone |-> <<<<"{", "%", " ", "e", "l", "s", "e", "i", "f", " ", "6", " ", "/", " ",
                 "x", "!", "!", "d", "i", "v", "i", "s", "i", "o", "n", " ", "b", "y", " ",
                 "z", "e", "r", "o", " ", "%", "}", "E", ";">>, <<"T", ";">>>>,
                 kind |-> "failing elseif"]}

BitLists == UNION {[1..n -> {0, 1}] : n \in 1..MaxItems}

IteratedText(chain, bits) == Concat([k \in 1..Len(bits) |-> chain.alone[bits[k] + 1]])

IteratedRequests ==
    {Request("iterated", NewTemplate("html"), <<"{", "%", " ", "f", "o", "r", " ", "x", " ",
            "i", "n", " ", "l", " ", "%", "}">> \o chain.body \o <<"{", "%", " ", "e", "n",
            "d", "f", "o", "r", " ", "%", "}">>,
             [key \in {<<"l">>} |-> ListV([k \in 1..Len(bits) |-> IntV(bits[k])])],
             <<>>, "ascending", IteratedText(chain, bits), chain.kind) :
        chain \in IteratedChains, bits \in BitLists}

\* parents that hold the block c at top level, in the default content of
\* another block, and in the body of an if, an elseif, an else and a for;
\* the child overrides c with Z.  f is true, g false, l a list of two.
Placements ==
    {   [parent |-> <<"<", "{", "%", " ", "b", "l", "o", "c", "k", " ", "c", " ", "%", "}",
            "C", "{", "%", " ", "e", "n", "d", "b", "l", "o", "c", "k", " ", "%", "}", ">">>,
            text |-> <<"<", "Z", ">">>, place |-> "top"],
        [parent |-> <<"<", "{", "%", " ", "b", "l", "o", "c", "k", " ", "a", " ", "%", "}",
                "A", "{", "%", " ", "b", "l", "o", "c", "k", " ", "c", " ", "%", "}", "C", "{",
                "%", " ", "e", "n", "d", "b", "l", "o", "c", "k", " ", "%", "}", "a", "{", "%",
                " ", "e", "n", "d", "b", "l", "o", "c", "k", " ", "%", "}", ">">>,
         text |-> <<"<", "A", "Z", "a", ">">>, place |-> "block"],
        [parent |-> <<"<", "{", "%", " ", "i", "f", " ", "f", " ", "%", "}", "{", "%", " ",
                "b", "l", "o", "c", "k", " ", "c", " ", "%", "}", "C", "{", "%", " ", "e", "n",
                "d", "b", "l", "o", "c", "k", " ", "%", "}", "{", "%", " ", "e", "n", "d", "i",
                "f", " ", "%", "}", ">">>,
         text |-> <<"<", "Z", ">">>, place |-> "if"],
        [parent |-> <<"<", "{", "%", " ", "i", "f", " ", "g", " ", "%", "}", "-", "{", "%",
                " ", "e", "l", "s", "e", "i", "f", " ", "f", " ", "%", "}", "{", "%", " ", "b",
                "l", "o", "c", "k", " ", "c", " ", "%", "}", "C", "{", "%", " ", "e", "n", "d",
                "b", "l", "o", "c", "k", " ", "%", "}", "{", "%", " ", "e", "n", "d", "i", "f",
                " ", "%", "}", ">">>,
         text |-> <<"<", "Z", ">">>, place |-> "elseif"],
        [parent |-> <<"<", "{", "%", " ", "i", "f", " ", "g", " ", "%", "}", "-", "{", "%",
                " ", "e", "l", "s", "e", " ", "%", "}", "{", "%", " ", "b", "l", "o", "c", "k",
                " ", "c", " ", "%", "}", "C", "{", "%", " ", "e", "n", "d", "b", "l", "o", "c",
                "k", " ", "%", "}", "{", "%", " ", "e", "n", "d", "i", "f", " ", "%", "}",
                ">">>,
         text |-> <<"<", "Z", ">">>, place |-> "else"],
        [parent |-> <<"<", "{", "%", " ", "f", "o", "r", " ", "x", " ", "i", "n", " ", "l",
                " ", "%", "}", "{", "%", " ", "b", "l", "o", "c", "k", " ", "c", " ", "%", "}",
                "C", "{", "%", " ", "e", "n", "d", "b", "l", "o", "c", "k", " ", "%", "}", "{",
                "%", " ", "e", "n", "d", "f", "o", "r", " ", "%", "}", ">">>,
         text |-> <<"<", "Z", "Z", ">">>, place |-> "for"]}

PlacementData ==
    [key \in {<<"f">>, <<"g">>, <<"l">>} |->
        CASE key = <<"f">> -> BoolV(TRUE)
          [] key = <<"g">> -> BoolV(FALSE)
          [] key = <<"l">> -> ListV(<<IntV(1), IntV(2)>>)]

PlacementRequests ==
    {Request("placement",
             NewTemplateWithLoader(escape, Loader([file \in {<<"p", "a", "r", "e", "n",
                     "t">>} |-> placement.parent])),
             <<"{", "%", " ", "e", "x", "t", "e", "n", "d", "s", " ", "\"", "p", "a", "r", "e",
                     "n", "t", "\"", " ", "%", "}">> \o Override(<<"c">>, <<"Z">>),
                     PlacementData, <<>>, "ascending",
             placement.text, placement.place) :
        escape \in Escapes, placement \in Placements}

\* parents that extend nothing, each rendered directly and through a child
\* that holds the extends tag only; text is the rendering of the parent
\* (v is x, f is true, the template item is i{{ v }})
Parents ==
    {   [parent |-> <<"<", "{", "%", " ", "b", "l", "o", "c", "k", " ", "a", " ", "%", "}",
            "A", "{", "%", " ", "e", "n", "d", "b", "l", "o", "c", "k", " ", "%", "}", "|",
            "{", "{", " ", "v", " ", "}", "}", ">">>, text |-> <<"<", "A", "|", "x", ">">>,
            kind |-> "plain"],
        [parent |-> <<"<", "{", "%", " ", "i", "f", " ", "f", " ", "%", "}", "{", "%", " ",
                "b", "l", "o", "c", "k", " ", "a", " ", "%", "}", "A", "{", "%", " ", "e", "n",
                "d", "b", "l", "o", "c", "k", " ", "%", "}", "{", "%", " ", "e", "n", "d", "i",
                "f", " ", "%", "}", ">">>, text |-> <<"<", "A", ">">>,
         kind |-> "plain"],
        [parent |-> <<"<", "{", "{", " ", "v", " ", "}", "}", " ", "{", "%", " ", "b", "l",
                "o", "c", "k", " ", "a", " ", "%", "}", "A", "{", "%", " ", "e", "n", "d", "b",
                "l", "o", "c", "k", " ", "%", "}", ">">>, text |-> <<"<", "x", " ", "A", ">">>,
                kind |-> "spaced"],
        [parent |-> <<"<", "{", "%", " ", "i", "n", "c", "l", "u", "d", "e", " ", "\"", "i",
                "t", "e", "m", "\"", " ", "%", "}", "{", "%", " ", "b", "l", "o", "c", "k",
                " ", "a", " ", "%", "}", "A", "{", "%", " ", "e", "n", "d", "b", "l", "o", "c",
                "k", " ", "%", "}", ">">>, text |-> <<"<", "i", "x", "A", ">">>,
         kind |-> "including"]}

ParentFiles(p) == [file \in {<<"p", "a", "r", "e", "n", "t">>, <<"i", "t", "e",
        "m">>} |-> IF file = <<"p", "a", "r", "e", "n", "t">> THEN p.parent ELSE <<"i", "{",
        "{", " ", "v", " ", "}", "}">>]

ParentData == [key \in {<<"v">>,
        <<"f">>} |-> IF key = <<"v">> THEN StrV(<<"x">>) ELSE BoolV(TRUE)]

\* the family is "inherit" for the rendering through the child and "parent"
\* for the direct rendering of the parent
InheritRequests ==
    {Request(family, NewTemplateWithLoader("html", Loader(ParentFiles(p))),
             IF family = "inherit" THEN <<"{", "%", " ", "e", "x", "t", "e", "n", "d", "s",
                     " ", "\"", "p", "a", "r", "e", "n", "t", "\"", " ", "%",
                     "}">> ELSE p.parent,
             ParentData, <<>>, "ascending", p.text, p.kind) :
        p \in Parents, family \in {"inherit", "parent"}}

\* templates with one variable tag whose text reads like a control tag, and
\* one whose text does not; the context binds the names else, endif, endfor
KeywordTemplates ==
    {   [tmpl |-> <<"{", "%", " ", "i", "f", " ", "t", " ", "%", "}", "a", "{", "{", " ", "e",
            "l", "s", "e", " ", "}", "}", "b", "{", "%", " ", "e", "n", "d", "i", "f", " ",
            "%", "}">>, kind |-> "keyword"],
        [tmpl |-> <<"{", "%", " ", "i", "f", " ", "t", " ", "%", "}", "a", "{", "{", " ", "e",
                "n", "d", "i", "f", " ", "}", "}", "b", "{", "%", " ", "e", "n", "d", "i", "f",
                " ", "%", "}">>, kind |-> "keyword"],
        [tmpl |-> <<"{", "%", " ", "f", "o", "r", " ", "x", " ", "i", "n", " ", "l", " ", "%",
                "}", "{", "{", " ", "e", "n", "d", "f", "o", "r", " ", "}", "}", "{", "{", " ",
                "x", " ", "}", "}", "{", "%", " ", "e", "n", "d", "f", "o", "r", " ", "%",
                "}">>, kind |-> "keyword"],
        [tmpl |-> <<"{", "{", " ", "i", "f", " ", "t", " ", "}", "}", "a", "{", "%", " ", "e",
                "n", "d", "i", "f", " ", "%", "}">>, kind |-> "keyword"],
        [tmpl |-> <<"{", "{", " ", "f", "o", "r", " ", "x", " ", "i", "n", " ", "l", " ", "}",
                "}", "a">>, kind |-> "keyword"],
        [tmpl |-> <<"{", "%", " ", "i", "f", " ", "t", " ", "%", "}", "a", "{", "{", " ", "v",
                " ", "}", "}", "b", "{", "%", " ", "e", "n", "d", "i", "f", " ", "%", "}">>,
                kind |-> "name"],
        [tmpl |-> <<"{", "%", " ", "f", "o", "r", " ", "x", " ", "i", "n", " ", "l", " ", "%",
                "}", "{", "{", " ", "i", "f", "f", "y", " ", "}", "}", "{", "{", " ", "x", " ",
                "}", "}", "{", "%", " ", "e", "n", "d", "f", "o", "r", " ", "%", "}">>,
                kind |-> "name"]}

KeywordData ==
    [key \in {<<"t">>, <<"l">>, <<"v">>, <<"i", "f", "f", "y">>, <<"e", "l", "s", "e">>, <<"e",
            "n", "d", "i", "f">>, <<"e", "n", "d", "f", "o", "r">>} |->
        CASE key = <<"t">> -> BoolV(TRUE)
          [] key = <<"l">> -> ListV(<<IntV(1)>>)
          [] OTHER -> StrV(<<"(">> \o key \o <<")">>)]

KeywordRequests ==
    {Request("keyword", NewTemplate(escape), k.tmpl, KeywordData, <<>>, "ascending", <<>>,
            k.kind) :
        escape \in Escapes, k \in KeywordTemplates}

\* expressions with a string literal that holds the word is between
\* spaces, or the word was; title is bound to the text this is it
QuotedWords ==
    {   [tmpl |-> <<"{", "%", " ", "i", "f", " ", "t", "i", "t", "l", "e", " ", "=", "=", " ",
            "\"", "t", "h", "i", "s", " ", "i", "s", " ", "i", "t", "\"", " ", "%", "}", "Y",
            "{", "%", " ", "e", "l", "s", "e", " ", "%", "}", "N", "{", "%", " ", "e", "n",
            "d", "i", "f", " ", "%", "}">>, text |-> <<"Y">>, kind |-> "is"],
        [tmpl |-> <<"{", "%", " ", "i", "f", " ", "0", " ", "%", "}", "X", "{", "%", " ", "e",
                "l", "s", "e", "i", "f", " ", "t", "i", "t", "l", "e", " ", "=", "=", " ",
                "\"", "t", "h", "i", "s", " ", "i", "s", " ", "i", "t", "\"", " ", "%", "}",
                "Y", "{", "%", " ", "e", "l", "s", "e", " ", "%", "}", "N", "{", "%", " ", "e",
                "n", "d", "i", "f", " ", "%", "}">>,
         text |-> <<"Y">>, kind |-> "is"],
        [tmpl |-> <<"{", "{", " ", "t", "i", "t", "l", "e", " ", "=", "=", " ", "\"", "t", "h",
                "i", "s", " ", "i", "s", " ", "i", "t", "\"", " ", "}", "}">>,
                text |-> <<"1">>, kind |-> "is"],
        [tmpl |-> <<"{", "{", " ", "\"", "a", " ", "i", "s", " ", "b", "\"", " ", "}", "}">>,
                text |-> <<"a", " ", "i", "s", " ", "b">>, kind |-> "is"],
        [tmpl |-> <<"{", "%", " ", "i", "f", " ", "t", "i", "t", "l", "e", " ", "!", "=", " ",
                "\"", "t", "h", "i", "s", " ", "w", "a", "s", " ", "i", "t", "\"", " ", "%",
                "}", "Y", "{", "%", " ", "e", "l", "s", "e", " ", "%", "}", "N", "{", "%", " ",
                "e", "n", "d", "i", "f", " ", "%", "}">>, text |-> <<"Y">>,
         kind |-> "was"],
        [tmpl |-> <<"{", "%", " ", "i", "f", " ", "0", " ", "%", "}", "X", "{", "%", " ", "e",
                "l", "s", "e", "i", "f", " ", "t", "i", "t", "l", "e", " ", "!", "=", " ",
                "\"", "t", "h", "i", "s", " ", "w", "a", "s", " ", "i", "t", "\"", " ", "%",
                "}", "Y", "{", "%", " ", "e", "l", "s", "e", " ", "%", "}", "N", "{", "%", " ",
                "e", "n", "d", "i", "f", " ", "%", "}">>,
         text |-> <<"Y">>, kind |-> "was"],
        [tmpl |-> <<"{", "{", " ", "t", "i", "t", "l", "e", " ", "!", "=", " ", "\"", "t", "h",
                "i", "s", " ", "w", "a", "s", " ", "i", "t", "\"", " ", "}", "}">>,
                text |-> <<"1">>, kind |-> "was"],
        [tmpl |-> <<"{", "{", " ", "\"", "a", " ", "w", "a", "s", " ", "b", "\"", " ", "}",
                "}">>, text |-> <<"a", " ", "w", "a", "s", " ", "b">>, kind |-> "was"]}

QuotedRequests ==
    {Request("quoted", NewTemplate(escape), q.tmpl, [key \in {<<"t", "i", "t", "l",
            "e">>} |-> StrV(<<"t", "h", "i", "s", " ", "i", "s", " ", "i", "t">>)],
             <<>>, "ascending", q.text, q.kind) :
        escape \in Escapes, q \in QuotedWords}

\* templates that try the loops of the engine: tags that are not closed,
\* parentheses that do not match, characters the expression tokenizer does
\* not know, a loop over nothing, a template that extends itself, overriding
\* blocks that hold each other's names, and a remainder by a fraction
HardTemplates ==
    {   [tmpl |-> <<"a", "{", "{", " ", "n">>, kind |-> "unclosed"],
        [tmpl |-> <<"a", "{", "%", " ", "i", "f", " ", "n">>, kind |-> "unclosed"],
        [tmpl |-> <<"a", "{", "#", " ", "n">>, kind |-> "unclosed"],
        [tmpl |-> <<"{", "%", " ", "i", "f", " ", "n", " ", "%", "}", "a">>,
                kind |-> "unclosed"],
        [tmpl |-> <<"{", "%", " ", "e", "n", "d", "i", "f", " ", "%", "}", "{", "%", " ", "e",
                "n", "d", "f", "o", "r", " ", "%", "}", "{", "%", " ", "e", "l", "s", "e", " ",
                "%", "}", "a">>, kind |-> "unopened"],
        [tmpl |-> <<"{", "{", " ", "(", "n", " ", "+", " ", "}", "}">>, kind |-> "parentheses"],
        [tmpl |-> <<"{", "{", " ", "n", " ", ")", " ", ")", " ", "+", " ", "(", " ", "}",
                "}">>, kind |-> "parentheses"],
        [tmpl |-> <<"{", "{", " ", "$", " ", "?", " ", "n", " ", "~", " ", "}", "}">>,
                kind |-> "characters"],
        [tmpl |-> <<"{", "{", " ", "\"", "n", " ", "}", "}">>, kind |-> "characters"],
        [tmpl |-> <<"{", "{", " ", "n", " ", "|", " ", "|", " ", "}", "}">>,
                kind |-> "characters"],
        [tmpl |-> <<"{", "%", " ", "f", "o", "r", " ", "x", " ", "i", "n", " ", "m", "i", "s",
                "s", "i", "n", "g", " ", "%", "}", "a", "{", "%", " ", "e", "n", "d", "f", "o",
                "r", " ", "%", "}">>, kind |-> "loop"],
        [tmpl |-> <<"{", "%", " ", "f", "o", "r", " ", "i", "n", " ", "%", "}", "a", "{", "%",
                " ", "e", "n", "d", "f", "o", "r", " ", "%", "}">>, kind |-> "loop"],
        [tmpl |-> <<"{", "%", " ", "e", "x", "t", "e", "n", "d", "s", " ", "\"", "s", "e", "l",
                "f", "\"", " ", "%", "}", "{", "%", " ", "b", "l", "o", "c", "k", " ", "a",
                " ", "%", "}", "a", "{", "%", " ", "e", "n", "d", "b", "l", "o", "c", "k", " ",
                "%", "}">>, kind |-> "extends"],
        [tmpl |-> <<"{", "%", " ", "e", "x", "t", "e", "n", "d", "s", " ", "\"", "b", "a", "s",
                "e", "\"", " ", "%", "}", "{", "%", " ", "b", "l", "o", "c", "k", " ", "b",
                " ", "%", "}", "{", "%", " ", "b", "l", "o", "c", "k", " ", "a", " ", "%", "}",
                "1", "{", "%", " ", "e", "n", "d", "b", "l", "o", "c", "k", " ", "%", "}", "{",
                "%", " ", "e", "n", "d", "b", "l", "o", "c", "k", " ", "%", "}", "{", "%", " ",
                "b", "l", "o", "c", "k", " ", "a", " ", "%", "}", "{", "%", " ", "b", "l", "o",
                "c", "k", " ", "b", " ", "%", "}", "2", "{", "%", " ", "e", "n", "d", "b", "l",
                "o", "c", "k", " ", "%", "}", "{", "%", " ", "e", "n", "d", "b", "l", "o", "c",
                "k", " ", "%", "}">>,
         kind |-> "extends"],
        [tmpl |-> <<"{", "%", " ", "i", "n", "c", "l", "u", "d", "e", " ", "\"", "l", "e", "a",
                "f", "\"", " ", "%", "}", "{", "%", " ", "i", "n", "c", "l", "u", "d", "e",
                " ", "\"", "l", "e", "a", "f", "\"", " ", "%", "}">>, kind |-> "include"],
        [tmpl |-> <<"{", "{", " ", "n", " ", "%", " ", "0", ".", "5", " ", "}", "}">>,
                kind |-> "remainder"]}

HardFiles ==
    [file \in {<<"s", "e", "l", "f">>, <<"b", "a", "s", "e">>, <<"l", "e", "a", "f">>} |->
        CASE file = <<"s", "e", "l", "f">> -> <<"{", "%", " ", "e", "x", "t", "e", "n", "d",
                "s", " ", "\"", "s", "e", "l", "f", "\"", " ", "%", "}", "{", "%", " ", "b",
                "l", "o", "c", "k", " ", "a", " ", "%", "}", "a", "{", "%", " ", "e", "n", "d",
                "b", "l", "o", "c", "k", " ", "%", "}">>
          [] file = <<"b", "a", "s", "e">> -> <<"<", "{", "%", " ", "b", "l", "o", "c", "k",
                  " ", "a", " ", "%", "}", "A", "{", "%", " ", "e", "n", "d", "b", "l", "o",
                  "c", "k", " ", "%", "}", "|", "{", "%", " ", "b", "l", "o", "c", "k", " ",
                  "b", " ", "%", "}", "B", "{", "%", " ", "e", "n", "d", "b", "l", "o", "c",
                  "k", " ", "%", "}", ">">>
          [] file = <<"l", "e", "a", "f">> -> <<"{", "{", " ", "n", " ", "}", "}">>]

HardRequests ==
    {Request("hard", NewTemplateWithLoader(escape, Loader(HardFiles)), h.tmpl,
             [key \in {<<"n">>} |-> IntV(5)], <<>>, "ascending", <<>>, h.kind) :
        escape \in Escapes, h \in HardTemplates}

Requests ==
    HardRequests \cup QuotedRequests \cup KeywordRequests \cup InheritRequests \cup PlacementRequests \cup IteratedRequests \cup PlainRequests \cup RegistryRequests \cup SpacingRequests \cup SequenceRequests \cup MappingRequests \cup DefinedRequests \cup TestedRequests \cup UnknownTestRequests \cup FailingRequests \cup ChainRequests \cup LoopRequests \cup VarRequests
    \cup IncludeRequests \cup ExtendsRequests

Call(req) ==
    /\ request' = req
    /\ response' = Render(req.t, req.template, req.data, req.functions, req.order)
    /\ registry' = callerFunctions(req.functions)
    /\ UNCHANGED parallel
    /\ UNCHANGED <<tokVars, exprVars>>

\* Render on a Template made by NewTemplate
RenderTemplate ==
    /\ RenderIdle
    /\ \E req \in Requests : ~req.t.loader.configured /\ Call(req)

\* Render on a Template made by NewTemplateWithLoader
RenderLoadedTemplate ==
    /\ RenderIdle
    /\ \E req \in Requests : req.t.loader.configured /\ Call(req)

InitRender ==
    /\ TokIdle
    /\ ExprIdle
    /\ RenderIdle

NextRender == RenderTemplate \/ RenderLoadedTemplate

SpecRender == InitRender /\ [][NextRender]_vars

(***************************************************************************)
(* Two Render calls on one Template, running at once.  A call goes through *)
(* Render's statements: it parses its template (lines 366-367), registers  *)
(* raw in the map of functions (lines 370-375) and renders the tree (line  *)
(* 377).  The maps of functions are objects: the two callers pass nil, a   *)
(* map each, or one map they share.  Two accesses to one map that no order *)
(* separates, one of them a write, are a data race: the Go runtime may     *)
(* stop the program (concurrent map writes) or let the calls go on.        *)
(***************************************************************************)
Calls == {1, 2}
Sharings == {"nil", "separate", "shared"}
ParallelTemplates == {<<"{", "{", " ", "s", "|", "u", "p", "p", "e", "r", " ", "}", "}">>,
        <<"{", "{", " ", "s", "|", "r", "a", "w", " ", "}", "}">>, <<"a", "{", "{", " ", "s",
        " ", "}", "}">>}
ParallelData == [key \in {<<"s">>} |-> StrV(<<"<", "v", ">">>)]

\* the maps of functions the callers made, and the map of each caller (0: nil)
CallersMaps(sharing) ==
    CASE sharing = "nil" -> <<>>
      [] sharing = "separate" -> <<UpperOnly, UpperOnly>>
      [] sharing = "shared" -> <<UpperOnly>>

CallersFunctions(sharing) ==
    CASE sharing = "nil" -> <<0, 0>>
      [] sharing = "separate" -> <<1, 2>>
      [] sharing = "shared" -> <<1, 1>>

Running == parallel.phase = "running"

\* the map the next statement of call i writes: src/tqtemplate.go:373
Writes(p, i) ==
    IF p.pc[i] = "parsed" /\ p.functions[i] # 0 THEN {p.functions[i]} ELSE {}

\* the map the next statement of call i reads: the lookup of a filter,
\* src/unnamed/part_003:401
Reads(p, i) ==
    IF p.pc[i] = "registered" /\ Contains(p.templates[i], "|") THEN {p.functions[i]} ELSE {}

\* the next statements of the two calls access one map, one of them writing
Racing(p) ==
    \/ Writes(p, 1) \cap (Writes(p, 2) \cup Reads(p, 2)) # {}
    \/ Writes(p, 2) \cap Reads(p, 1) # {}

\* what a data race may end in
Crashes(p) == IF Racing(p) THEN BOOLEAN ELSE {FALSE}

StartCalls ==
    /\ RenderIdle
    /\ \E sharing \in Sharings, first \in ParallelTemplates, second \in ParallelTemplates :
            parallel' = [phase |-> "running", sharing |-> sharing,
                         templates |-> <<first, second>>,
                         pc |-> <<"called", "called">>, maps |-> CallersMaps(sharing),
                         functions |-> CallersFunctions(sharing),
                         out |-> <<NoResponse, NoResponse>>, crashed |-> FALSE]
    /\ UNCHANGED <<tokVars, exprVars, request, response, registry>>

\* src/tqtemplate.go:366-367
Parse(i) ==
    /\ Running
    /\ ~parallel.crashed
    /\ parallel.pc[i] = "called"
    /\ parallel' = [parallel EXCEPT !.pc[i] = "parsed"]
    /\ UNCHANGED <<tokVars, exprVars, request, response, registry>>

\* src/tqtemplate.go:370-375: a map is made for a nil functions, and raw is
\* assigned in the map
registeredIn(p, i) ==
    IF p.functions[i] = 0
    THEN [p EXCEPT !.maps = Append(@, rawRegistered(<<>>)), !.functions[i] = Len(p.maps) + 1,
                   !.pc[i] = "registered"]
    ELSE [p EXCEPT !.maps[p.functions[i]] = rawRegistered(@), !.pc[i] = "registered"]

Register(i) ==
    /\ Running
    /\ ~parallel.crashed
    /\ parallel.pc[i] = "parsed"
    /\ \E crash \in Crashes(parallel) :
            parallel' = [registeredIn(parallel, i) EXCEPT !.crashed = crash]
    /\ UNCHANGED <<tokVars, exprVars, request, response, registry>>

\* src/tqtemplate.go:377: the tree is rendered with the map as it is now
Return(i) ==
    /\ Running
    /\ ~parallel.crashed
    /\ parallel.pc[i] = "registered"
    /\ \E crash \in Crashes(parallel) :
            parallel' = [parallel EXCEPT
                            !.out[i] = renderWith(NewTemplate("html"), parallel.templates[i],
                                                  ParallelData,
                                                  parallel.maps[parallel.functions[i]],
                                                  "ascending"),
                            !.pc[i] = "returned", !.crashed = crash]
    /\ UNCHANGED <<tokVars, exprVars, request, response, registry>>

InitParallel ==
    /\ TokIdle
    /\ ExprIdle
    /\ RenderIdle

NextParallel ==
    \/ StartCalls
    \/ \E i \in Calls : Parse(i)
    \/ \E i \in Calls : Register(i)
    \/ \E i \in Calls : Return(i)

SpecParallel == InitParallel /\ [][NextParallel]_vars

\* what call i returns when it runs alone
Alone(p, i) ==
    Render(NewTemplate("html"), p.templates[i], ParallelData,
           IF p.sharing = "nil" THEN <<>> ELSE UpperOnly, "ascending")

\* C18: two Render calls on one Template may run in parallel, whether the
\* callers share their maps of functions or not: no statement of one call
\* writes what a statement of the other reads or writes, no call is stopped,
\* and each call returns what it returns alone.
ParallelCallsIndependent ==
    Running =>
        /\ ~Racing(parallel)
        /\ ~parallel.crashed
        /\ \A i \in Calls :
                parallel.pc[i] = "returned" =>
                    parallel.out[i].out = Alone(parallel, i).out

(***************************************************************************)
(* Properties of Render                                                    *)
(***************************************************************************)
\* the places where s is cut into fields: before it, at each sep, after it
Cuts(s, sep) == {0, Len(s) + 1} \cup {k \in 1..Len(s) : s[k] = sep}

\* the n-th cut from the left, counted from 0
Cut(cuts, n) == CHOOSE c \in cuts : Cardinality({d \in cuts : d < c}) = n

FieldsAt(s, cuts) ==
    [n \in 1..(Cardinality(cuts) - 1) |-> SubSeq(s, Cut(cuts, n - 1) + 1, Cut(cuts, n) - 1)]

\* the fields of s between the separators sep
Fields(s, sep) == FieldsAt(s, Cuts(s, sep))

Range(s) == {s[k] : k \in 1..Len(s)}

Entities == {<<"&", "a", "m", "p", ";">>, <<"&", "l", "t", ";">>, <<"&", "g", "t", ";">>,
        <<"&", "#", "3", "4", ";">>, <<"&", "#", "3", "9", ";">>}

\* no character HTML gives a meaning to, outside the entities that stand for them
Harmless(out) ==
    \A k \in 1..Len(out) :
        /\ out[k] \notin {"<", ">", "\"", "'"}
        /\ out[k] = "&" => \E entity \in Entities : HasPrefix(SubSeq(out, k, Len(out)), entity)

Returned == response.status # "none"

\* C1: a template without extends and include tags renders with a nil error,
\* whatever fails in its tags: the failing tag is replaced by the escaped
\* inline text of its source and the message, and the siblings after it are
\* rendered.
FailuresRenderInline ==
    (Returned /\ request.family = "failing") =>
        /\ response.status = "ok"
        /\ request.note = "inline" => response.out = request.expect

\* C2: Render returns an error and no output when an include or extends tag
\* is met without a loader, or names a template the loader fails for,
\* however deep the tag lies in blocks, loops, ifs, included and parent
\* templates.
LoaderFailuresAreErrors ==
    (Returned /\ request.family = "include" /\ request.note = "broken") =>
        /\ response.status = "err"
        /\ response.out = <<>>

\* C3: of an if/elseif/else chain the body of the first branch whose
\* condition is true is rendered and no other; the elseif conditions after
\* it leave nothing in the output, and the else body is rendered exactly
\* when no branch before it matched.
FirstTrueBranchRendered ==
    (Returned /\ request.family = "chain") =>
        /\ response.status = "ok"
        /\ response.out = request.expect

\* the probes of x and y at both ends of one pass through a loop body
SameAtBothEnds(segment) ==
    Len(Fields(segment, "|")) = 3 => Tail(Fields(segment, "|")[1]) = Fields(segment, "|")[3]

\* C4: a for-loop leaves the mapping it is rendered with as it was: the names
\* that the loop's key and value identifiers shadow resolve after the loop as
\* they did before it, in the scope around the loop and, for a nested loop,
\* in the body of the outer loop.
LoopLeavesContextUnchanged ==
    (Returned /\ request.family = "loop") =>
        /\ response.status = "ok"
        /\ response.st.maps[1] = request.data
        /\ Len(Fields(response.out, "#")) = 3
        /\ Fields(response.out, "#")[1] = Fields(response.out, "#")[3]
        /\ \A segment \in Range(Fields(Fields(response.out, "#")[2], "]")) :
                SameAtBothEnds(segment)

\* a loop over x inside a loop over x has run, and x in the body differed
\* from the x of the context
ShadowingLoopsRendered ==
    /\ Returned
    /\ request.family = "loop"
    /\ request.note = "nested"
    /\ response.status = "ok"
    /\ Len(response.st.maps) > 3
    /\ \E segment \in Range(Fields(Fields(response.out, "#")[2], "]")) :
            /\ Len(Fields(segment, "|")) = 3
            /\ Fields(segment, "|")[2] # <<>>
            /\ Tail(Fields(segment, "|")[1]) # Fields(response.out, "#")[1]

\* what a variable tag writes is escaped, or is the text marked raw
EscapedUnlessRaw ==
    /\ response.status = "ok"
    /\ IF request.note = "raw" THEN response.out = request.expect
       ELSE Harmless(response.out)

OverriddenBlocksReplaced ==
    (Returned /\ request.family = "extends") =>
        /\ response.status = "ok"
        /\ response.out = request.expect

\* C9: an include tag is replaced by the rendering of the template it names
\* under the context and filters in effect at the tag, loop variables
\* included, and so are the include tags of the included template.
IncludesRenderInPlace ==
    (Returned /\ request.family = "include" /\ request.note = "loads") =>
        /\ response.status = "ok"
        /\ response.out = request.expect

VariableTagsTestAbsence ==
    (Returned /\ request.family = "tested") =>
        /\ response.status = "ok"
        /\ response.out = request.expect

\* C13: a test that is not in the registry, plain or negated, is an error:
\* the tag writes an inline text with the !! mark and the message, and the
\* nodes after it are rendered.
UnknownTestIsInlineError ==
    (Returned /\ request.family = "unknowntest") =>
        /\ response.status = "ok"
        /\ Index(response.out, <<"!", "!">>) # -1
        /\ HasSuffix(response.out, <<"b">>)

WhitespaceInsignificant ==
    (Returned /\ request.family = "spacing") =>
        /\ response.status = "ok"
        /\ response.out = request.expect

\* C17: Render leaves the map of functions of the caller as it was: after
\* the call it holds the same names bound to the same functions.
RegistryUnchanged ==
    (Returned /\ request.functions # <<>>) => registry = request.functions

IterationsIndependent ==
    (Returned /\ request.family = "iterated") =>
        /\ response.status = "ok"
        /\ response.out = request.expect

\* what holds of the loop: the same for the lists of one element and for
\* the chains whose conditions do not fail
IterationsWithoutFailureIndependent ==
    (/\ Returned
     /\ request.family = "iterated"
     /\ request.note = "plain" \/ Len(request.data[<<"l">>].items) = 1) =>
        /\ response.status = "ok"
        /\ response.out = request.expect

\* C26: a block of the parent is replaced by the child's block of its name
\* wherever it stands in the parent: at top level, in the default content
\* of another block, in the body of an if, an elseif, an else or a for.
BlocksReplacedWhereverPlaced ==
    (Returned /\ request.family = "placement") =>
        /\ response.status = "ok"
        /\ response.out = request.expect

\* what holds of the replacement: the same at top level and in the default
\* content of another block
BlocksReplacedOutsideControlBodies ==
    (Returned /\ request.family = "placement" /\ request.note \in {"top", "block"}) =>
        /\ response.status = "ok"
        /\ response.out = request.expect

\* an overriding block inside the body of an if, elseif, else or for of the
\* parent shows the parent's content
DefaultShownInControlBodies ==
    (Returned /\ request.family = "placement" /\ request.note \notin {"top", "block"}) =>
        /\ response.status = "ok"
        /\ response.out = IF request.note = "for" THEN <<"<", "C", "C", ">">> ELSE <<"<", "C",
                ">">>

\* C27: a child that holds an extends tag and nothing else renders what its
\* parent renders directly under the same context and filters, for parents
\* that extend nothing, with include tags or with whitespace between a tag
\* and a block tag on a line.
ExtendsOnlyChildRendersParent ==
    (Returned /\ request.family = "inherit") =>
        /\ response.status = "ok"
        /\ response.out = request.expect

\* what holds of such a child: the same for the parents without include
\* tags and without whitespace alone between a tag and a block tag
PlainParentRenderedThroughChild ==
    (Returned /\ request.family = "inherit" /\ request.note = "plain") =>
        /\ response.status = "ok"
        /\ response.out = request.expect

\* every parent renders directly the text the child is expected to render
ParentsRenderDirectly ==
    (Returned /\ request.family = "parent") =>
        /\ response.status = "ok"
        /\ response.out = request.expect

\* through the child the whitespace before the block and the included
\* template are missing
ChildDropsWhitespaceAndIncludes ==
    (Returned /\ request.family = "inherit") =>
        response.out = CASE request.note = "spaced" -> <<"<", "x", "A", ">">>
                         [] request.note = "including" -> <<"<", "A", ">">>
                         [] OTHER -> request.expect

\* the bodies of the variable tags and of the control tags of a template
TagBodies(tmpl, control) ==
    {k \in 1..Len(tokenize(tmpl)) :
        k % 2 = 0 /\ (HasPrefix(tokenize(tmpl)[k], <<"@">>) <=> control)}

\* the control tags that open a node: if, elseif, else and for
Opens(body) ==
    \/ body = <<"@", "e", "l", "s", "e">>
    \/ HasPrefix(body, <<"@", "i", "f", " ">>) \/ HasPrefix(body, <<"@", "e", "l", "s", "e",
            "i", "f", " ">>) \/ HasPrefix(body, <<"@", "f", "o", "r", " ">>)

NodesOf(types) == {n \in 1..Len(response.st.nodes) : response.st.nodes[n].Type \in types}

\* the tree holds one variable node for every {{ }} tag, with the text of
\* the tag as its expression, and one control node for every {% %} tag that
\* opens one
TreeMatchesTags ==
    /\ \A k \in TagBodies(request.template, FALSE) :
            \E n \in NodesOf({"var"}) :
                response.st.nodes[n].Expression = tokenize(request.template)[k]
    /\ Cardinality(NodesOf({"var"})) = Cardinality(TagBodies(request.template, FALSE))
    /\ Cardinality(NodesOf({"if", "elseif", "else", "for"}))
            = Cardinality({k \in TagBodies(request.template, TRUE) :
                                Opens(tokenize(request.template)[k])})

\* C28: the tree of a template holds one variable node for every {{ }} tag,
\* with the text of the tag as its expression, whatever the text, and one
\* control node for every {% %} tag that opens one: a variable tag never
\* makes a control node and never closes one.
VariableTagsYieldVariableNodes ==
    (Returned /\ request.family = "keyword") =>
        TreeMatchesTags

\* what holds of the tree builder: the same for the variable tags whose text
\* is not endif, endfor or else and does not start with if, elseif or for
\* and a space
OtherVariableTagsYieldVariableNodes ==
    (Returned /\ request.family = "keyword" /\ request.note = "name") =>
        TreeMatchesTags

\* C29: an expression whose only " is " lies inside a double-quoted string
\* is evaluated as it stands, with no test made of the text of the string:
\* the tag renders the value of the expression.
QuotedIsNotATest ==
    (Returned /\ request.family = "quoted") =>
        /\ response.status = "ok"
        /\ response.out = request.expect

\* what holds of these tags: the same with another word in the string
QuotedWordsEvaluated ==
    (Returned /\ request.family = "quoted" /\ request.note = "was") =>
        /\ response.status = "ok"
        /\ response.out = request.expect

\* C30: every Render call returns, with output or with an error, whatever
\* the template, the context and the loader, no template including itself.
EveryCallReturns ==
    Returned => response.status \in {"ok", "err"}

\* what holds of Render: every call ends, and every call but those that
\* take a remainder by a fraction below one returns
RemainderByFraction ==
    \/ request.family = "hard" /\ request.note = "remainder"
    \/ request.family = "failing" /\ request.note = "fraction"

CallsWithoutRemainderReturn ==
    Returned =>
        IF RemainderByFraction
        THEN response.status = "panic"
        ELSE response.status \in {"ok", "err"}

====
